---------------------------- MODULE Spec2Model ----------------------------
(***************************************************************************)
(* Robot head/torso firmware: the request-to-actuation pipeline.           *)
(*                                                                         *)
(* Main model: the full controller with the critical-section mailboxes     *)
(* (pendingEmotion / pendingHead / pendingReset), the deferred reset, the  *)
(* three servo axes, the eye blinking and the emotion timeout.  The main   *)
(* loop is one process whose position is pc; the web handlers run in the   *)
(* network context and may fire between any two steps of the loop.  A      *)
(* noInterrupts() ... interrupts() section is one atomic step.             *)
(*                                                                         *)
(* Time: millis is the millisecond clock.  Statements take no time; time   *)
(* passes in delay() calls only: the blocking LED effects, the WiFi        *)
(* reconnection wait and the delay at the end of loop().                   *)
(*                                                                         *)
(* The two smaller sketches are modelled next to it, on the same           *)
(* variables: sketch_aug2a (handlers that write the task and the robot     *)
(* state directly) and sketch_jul22a (one sweeping servo, a synchronous    *)
(* web server, and a setup() that waits for WiFi).                         *)
(***************************************************************************)
EXTENDS Integers, Sequences, FiniteSets, TLC

----------------------------------------------------------------------------
\* Bounds of the model (not program constants).

\* Handler invocations in one run.
MaxPosts == 2
\* Loop iterations that end after the bare delay(20).
MaxShortTicks == 1
\* A loop iteration that is held up longer ends after this many ms instead.
LongElapse == 13000
\* No loop iteration ends after this clock value.
MaxTime == 33000
\* Requests in a run of SpecRepeat and of SpecUnknown.
RepeatPosts == 3
\* SpecSweep: requests in a run, the length of an iteration of loop() (the
\* servos take one step in it, so that three iterations cover a count move
\* and the interval to the next), and the last clock value.
SweepPosts == 11
SweepElapse == 700
SweepTime == 26000

\* SpecCount: the iterations of loop() that end after the bare delay(20),
\* and the last clock value.
CountShortTicks == 2
CountTime == 11000
\* SpecTrack: requests in a run, and the last clock value; an iteration of
\* loop() takes SweepElapse ms.
TrackPosts == 10
TrackTime == 24000
\* SpecMove: the last clock value, one servo step after setup().
MoveTime == 4875
\* SpecWifi: requests in a run, the length of an iteration of loop() that
\* runs no effect and no reconnection, and the last clock value at which
\* an iteration ends.
WifiPosts == 1
WifiElapse == 2000
WifiTime == 34000
\* SpecJul: requests in a run, the length of an iteration of loop() (the
\* servo is due in every one), and the last clock value at which an
\* iteration ends.
JulPosts == 1
JulElapse == 110
JulTime == 15500
\* SpecJulData: the last clock value at which an iteration ends.
JulDataTime == 3000
\* SpecJulSetup: the last clock value at which a round of the WiFi wait of
\* setup() ends.
JulSetupTime == 31000

----------------------------------------------------------------------------
\* Program constants.

SERVO_STEP_SIZE == 2
SERVO_MOVE_DELAY == 25
SERVO_DEADBAND == 2
BLINK_DURATION == 150
EMOTION_MODE_DURATION == 12000
WIFI_CHECK_INTERVAL == 15000
HEARTBEAT_INTERVAL == 30000
RESET_DELAY == 5000
HEAD_MOVE_INTERVAL == 2000
LOOP_DELAY == 20
NO_VALUE == -1
\* The longest WiFi wait a setup() of the repository states: the timeout
\* of the full controller.
SETUP_WIFI_TIMEOUT == 30000
\* sketch_jul22a
DATA_TIMEOUT == 5000
DETECTION_DEBOUNCE == 1000

\* millis() at the two places of setup() the loop depends on, WiFi
\* associating at once: the delays of setup() up to the blink timer
\* initialisation, and up to the end of setup().
SetupBlinkMillis == 100 + (100 + 4 * 300) + (2 * 2 * 300) + 100 + 100 + 200 + 3 * 50 + 500
SetupDoneMillis == SetupBlinkMillis + 3 * 2 * 200

----------------------------------------------------------------------------
\* Strings are sequences of characters, so that String::toLowerCase is
\* computed character by character.

UPPER == <<"A","B","C","D","E","F","G","H","I","J","K","L","M",
           "N","O","P","Q","R","S","T","U","V","W","X","Y","Z">>
LOWER == <<"a","b","c","d","e","f","g","h","i","j","k","l","m",
           "n","o","p","q","r","s","t","u","v","w","x","y","z">>

LowerChar(c) ==
  IF \E i \in DOMAIN UPPER : UPPER[i] = c
    THEN LOWER[CHOOSE i \in DOMAIN UPPER : UPPER[i] = c]
    ELSE c

toLowerCase(s) == [i \in DOMAIN s |-> LowerChar(s[i])]

happy == <<"h","a","p","p","y">>
joy == <<"j","o","y">>
angry == <<"a","n","g","r","y">>
anger == <<"a","n","g","e","r">>
sad == <<"s","a","d">>
sadness == <<"s","a","d","n","e","s","s">>
fear == <<"f","e","a","r">>
scared == <<"s","c","a","r","e","d">>
disgust == <<"d","i","s","g","u","s","t">>
surprise == <<"s","u","r","p","r","i","s","e">>
surprised == <<"s","u","r","p","r","i","s","e","d">>
emptyString == << >>
\* The labels that the colour table or the pose table knows.
KnownLabels == {happy, joy, angry, anger, sad, sadness, fear, scared, disgust,
                surprise, surprised}

\* The request bodies the network delivers (the "sentiment" field).
Sentiments == { <<"A","N","G","R","Y">>, sad }
\* The "angle" and "number" fields of POST /head.
HeadAngles == {94, 200}
HeadNumbers == {0}
\* The (x, frame_width) fields of POST /head_position.
HeadPositions == { <<320, 640>> }
\* The values random(2000, 5000) is sampled at.
BlinkIntervals == {2000}
\* The commands of SpecRepeat: the angry pose asks for head 95, and 94 is
\* within SERVO_DEADBAND of it.
RepeatSentiments == { <<"A","N","G","R","Y">>, sad }
RepeatAngles == {94}
\* The commands of SpecReset: head angles away from the neutral 90 and
\* within SERVO_DEADBAND of it, and an emotion.
ResetSentiments == { sad }
ResetAngles == {100, 92}

\* The requests of SpecPosition: a label that no table of the sketch holds,
\* and person positions <<x, frame_width>> at the left edge, the right edge,
\* the middle, and a place that maps to 91 degrees.
PositionSentiments == { <<"B","O","R","E","D">> }
HeadPositionsAcross == { <<0, 640>>, <<640, 640>>, <<320, 640>>, <<328, 640>> }
\* The /head bodies of SpecHead, <<has_number, number, has_angle, angle>>:
\* one with both fields, and angles below the head's range, -1 among them.
HeadBodies == { <<TRUE, 0, TRUE, 100>>,
                <<FALSE, NO_VALUE, TRUE, -1>>,
                <<FALSE, NO_VALUE, TRUE, -20>> }
\* The person positions of SpecUnknown: the right edge, and the place that
\* maps to 91 degrees, within SERVO_DEADBAND of the default head angle.
HeadPositionsNearMiddle == { <<640, 640>>, <<328, 640>> }
\* The person counts of SpecCount: nobody in view, and one person.
CountNumbers == {0, 1}

\* Counts that take neither branch of the person-count control, and one
\* that takes the first.
UnassignedNumbers == {-2, 0}

\* The "number" fields posted to sketch_jul22a: nobody in view, one person.
JulNumbers == {0, 1}
\* The bodies posted to sketch_jul22a in SpecJulData, <<has_number, number,
\* has_emotion_and_sentiment, emotion, sentiment>>: a count, emotion data,
\* both, and neither.
JulBodies == { <<TRUE, 1, FALSE, emptyString, emptyString>>,
               <<FALSE, 0, TRUE, sad, sad>>,
               <<TRUE, 0, TRUE, angry, angry>>,
               <<FALSE, 0, FALSE, emptyString, emptyString>> }

\* The person positions of SpecFrame, <<x, frame_width>>: a frame of width
\* 0 and a frame of 640 with the person left of the middle.
HeadPositionsZeroWidth == { <<320, 0>>, <<160, 640>> }

\* What an int that was never assigned may hold.
UninitInts == {-2147483647 - 1, 90, 2147483647}

\* The person count of SpecTrack: one person in view.
TrackNumbers == {1}

\* The angles moveServoSafely is called with in SpecMove: below and above
\* every range, next to the lower end of the head's range, 3 degrees from
\* the head's neutral angle, and angles inside all three ranges.
MoveAngles == {-10, 43, 47, 93, 200}

\* What WiFi.status() answers in SpecWifi: WL_CONNECTED, or anything else.
WifiStatuses == {"connected", "down"}
\* The emotion of SpecWifi.
WifiSentiments == { sad }
\* The 400 answers of the handlers.
ReceiveErrors == {"invalid_json", "missing_sentiment"}
HeadErrors == {"invalid_json", "missing_number_or_angle"}
HeadPositionErrors == {"invalid_json", "missing_x_or_frame_width"}

----------------------------------------------------------------------------
\* Arithmetic helpers.

constrain(x, lo, hi) == IF x < lo THEN lo ELSE IF x > hi THEN hi ELSE x
abs(x) == IF x < 0 THEN -x ELSE x
min(a, b) == IF a < b THEN a ELSE b
max(a, b) == IF a > b THEN a ELSE b

\* a - b on unsigned long.  A negative difference wraps to 2^32 - (b - a),
\* which is above every threshold of the program; it is represented by the
\* largest integer TLC has.
ULongWrapped == 1073741823 + 1073741824
ULongSub(a, b) == IF a >= b THEN a - b ELSE ULongWrapped

\* Arduino map() with integer division (frame widths here are positive).
\* map without the offset of the output range.
mapFromZero(x, in_min, in_max, out_min, out_max) ==
  ((x - in_min) * (out_max - out_min)) \div (in_max - in_min)

map(x, in_min, in_max, out_min, out_max) ==
  ((x - in_min) * (out_max - out_min)) \div (in_max - in_min) + out_min

\* A call of map: with in_max = in_min the divisor is 0, and the call either
\* returns -1 (a core whose map tests the divisor) or divides by zero, an
\* exception of the CPU that stops the program.
mapCall(x, in_min, in_max, out_min, out_max) ==
  IF in_max = in_min
    THEN {[fault |-> FALSE, value |-> -1], [fault |-> TRUE, value |-> 0]}
    ELSE {[fault |-> FALSE, value |-> map(x, in_min, in_max, out_min, out_max)]}

----------------------------------------------------------------------------
\* LED effects.

COLOR_HAPPY == "Green"
COLOR_ANGRY == "Red"
COLOR_SAD == "White"
COLOR_FEAR == "White"
COLOR_DISGUST == "Blue"
COLOR_SURPRISE == "Yellow"

\* The colour setEmotionLEDs shows for a label.
EmotionColor(e) ==
  IF e = happy \/ e = joy THEN COLOR_HAPPY
  ELSE IF e = angry \/ e = anger THEN COLOR_ANGRY
  ELSE IF e = sad \/ e = sadness THEN COLOR_SAD
  ELSE IF e = fear \/ e = scared THEN COLOR_FEAR
  ELSE IF e = disgust THEN COLOR_DISGUST
  ELSE IF e = surprise \/ e = surprised THEN COLOR_SURPRISE
  ELSE COLOR_HAPPY

\* Time the blocking effects take.
flashLEDsTime(flashes, duration) == flashes * 2 * duration
breatheEffectTime(cycles) == cycles * (31 + 31) * 30
sparkleEffectTime(duration) == ((duration + 99) \div 100) * 100

\* The effect an emotion drain runs after setting the colour.
EmotionEffectTime(e) ==
  IF e = angry \/ e = anger THEN flashLEDsTime(3, 200)
  ELSE IF e = surprise \/ e = surprised THEN flashLEDsTime(2, 150)
  ELSE IF e = happy \/ e = joy THEN sparkleEffectTime(1000)
  ELSE IF e = sad \/ e = sadness THEN breatheEffectTime(2)
  ELSE 0

----------------------------------------------------------------------------
\* Servo axes.

ServoState(cur, tgt, lo, hi) ==
  [currentPos |-> cur, targetPos |-> tgt, lastMoveTime |-> 0,
   moving |-> FALSE, minPos |-> lo, maxPos |-> hi]

\* moveServoSafely with a deadband of 5 degrees.
moveServoSafelyWideDeadband(state, targetAngle) ==
  LET safeAngle == constrain(targetAngle, state.minPos, state.maxPos)
  IN IF abs(state.targetPos - safeAngle) > 5
       THEN [state EXCEPT !.targetPos = safeAngle, !.moving = TRUE]
       ELSE state

\* moveServoSafely that sets the target without marking the axis as moving.
moveServoSafelyTargetOnly(state, targetAngle) ==
  LET safeAngle == constrain(targetAngle, state.minPos, state.maxPos)
  IN IF abs(state.targetPos - safeAngle) > SERVO_DEADBAND
       THEN [state EXCEPT !.targetPos = safeAngle]
       ELSE state

\* moveServoSafely that marks the axis as moving whatever the deadband says.
moveServoSafelyAlwaysMoving(state, targetAngle) ==
  LET safeAngle == constrain(targetAngle, state.minPos, state.maxPos)
  IN IF abs(state.targetPos - safeAngle) > SERVO_DEADBAND
       THEN [state EXCEPT !.targetPos = safeAngle, !.moving = TRUE]
       ELSE [state EXCEPT !.moving = TRUE]

moveServoSafely(state, targetAngle) ==
  LET safeAngle == constrain(targetAngle, state.minPos, state.maxPos)
  IN IF abs(state.targetPos - safeAngle) > SERVO_DEADBAND
       THEN [state EXCEPT !.targetPos = safeAngle, !.moving = TRUE]
       ELSE state

\* UpdateAxis with the two step directions exchanged.
UpdateAxisWrongWay(state, t) ==
  IF state.moving /\ ULongSub(t, state.lastMoveTime) >= SERVO_MOVE_DELAY
    THEN LET pos == IF state.currentPos < state.targetPos
                      THEN state.currentPos - SERVO_STEP_SIZE
                    ELSE IF state.currentPos > state.targetPos
                      THEN state.currentPos + SERVO_STEP_SIZE
                    ELSE state.currentPos
         IN [state EXCEPT !.currentPos = pos,
                          !.lastMoveTime = t,
                          !.moving = IF pos = state.targetPos THEN FALSE
                                     ELSE state.moving]
    ELSE state

\* UpdateAxis whose step is not cut at the target.
UpdateAxisOvershoot(state, t) ==
  IF state.moving /\ ULongSub(t, state.lastMoveTime) >= SERVO_MOVE_DELAY
    THEN LET pos == IF state.currentPos < state.targetPos
                      THEN state.currentPos + SERVO_STEP_SIZE
                    ELSE IF state.currentPos > state.targetPos
                      THEN state.currentPos - SERVO_STEP_SIZE
                    ELSE state.currentPos
         IN [state EXCEPT !.currentPos = pos,
                          !.lastMoveTime = t,
                          !.moving = IF pos = state.targetPos THEN FALSE
                                     ELSE state.moving]
    ELSE state

\* UpdateAxis that does not wait for the move delay.
UpdateAxisTooSoon(state, t) ==
  IF state.moving
    THEN LET pos == IF state.currentPos < state.targetPos
                      THEN min(state.currentPos + SERVO_STEP_SIZE, state.targetPos)
                    ELSE IF state.currentPos > state.targetPos
                      THEN max(state.currentPos - SERVO_STEP_SIZE, state.targetPos)
                    ELSE state.currentPos
         IN [state EXCEPT !.currentPos = pos,
                          !.lastMoveTime = t,
                          !.moving = IF pos = state.targetPos THEN FALSE
                                     ELSE state.moving]
    ELSE state

\* One axis of updateServoPositions.
UpdateAxis(state, t) ==
  IF state.moving /\ ULongSub(t, state.lastMoveTime) >= SERVO_MOVE_DELAY
    THEN LET pos == IF state.currentPos < state.targetPos
                      THEN min(state.currentPos + SERVO_STEP_SIZE, state.targetPos)
                    ELSE IF state.currentPos > state.targetPos
                      THEN max(state.currentPos - SERVO_STEP_SIZE, state.targetPos)
                    ELSE state.currentPos
         IN [state EXCEPT !.currentPos = pos,
                          !.lastMoveTime = t,
                          !.moving = IF pos = state.targetPos THEN FALSE
                                     ELSE state.moving]
    ELSE state

\* The pose table of the emotion drain: <<left arm, right arm, head>>.
\* EmotionPose in which a label outside the table raises both arms half way.
EmotionPoseNoDefault(e) ==
  IF e = sad \/ e = sadness \/ e = fear \/ e = scared THEN <<90, 90, 70>>
  ELSE IF e = angry \/ e = anger THEN <<45, 135, 95>>
  ELSE IF e = surprise \/ e = surprised THEN <<120, 60, 85>>
  ELSE IF e = happy \/ e = joy THEN <<160, 20, 95>>
  ELSE <<90, 90, 90>>

EmotionPose(e) ==
  IF e = sad \/ e = sadness \/ e = fear \/ e = scared THEN <<90, 90, 70>>
  ELSE IF e = angry \/ e = anger THEN <<45, 135, 95>>
  ELSE IF e = surprise \/ e = surprised THEN <<120, 60, 85>>
  ELSE IF e = happy \/ e = joy THEN <<160, 20, 95>>
  ELSE <<180, 0, 90>>

NeutralPose == <<180, 0, 90>>

----------------------------------------------------------------------------
\* State.

VARIABLES
  millis,                 \* the millisecond clock
  pc,                     \* position of the main loop
  now,                    \* loop(): the timestamp taken at the top of the iteration
  current_emotion, current_sentiment, emotion_mode_active,
  head_tracking_enabled, emotion_mode_start,
  pendingEmotion, pendingEmotionValue,
  pendingHead, pendingHeadNumber, pendingHeadAngle,
  pendingReset, resetAcknowledged, resetStartTime,
  headState, leftArmState, rightArmState,
  lastBlinkTime, nextBlinkInterval, isBlinking, blinkStartTime, eyesOpen,
  leds,                   \* colour shown on the strip
  display,                \* what both eye displays show
  emotion, number, angle, \* processPendingRequests(): the payloads copied out
  lastMoveTime, currentDirection, movementSpeed,  \* statics of the count branch
  last_wifi_check, last_heartbeat,
  reconnectStart,         \* loop(): when the last WiFi reconnection was started
  posts,                  \* history: every accepted post, in order
  pendingEmotionId, pendingHeadId, pendingResetId,  \* history: the post a mailbox holds
  drained,                \* history: the posts copied out by the main loop, with what was read
                          \* (and, for an emotion, the targets and colour it left)
  shortTicks,             \* iterations that ended after the bare delay(20)
  \* sketch_aug2a only: currentTask, server_busy, and the web handler's
  \* position and parsed field
  has_emotion_task, has_head_task, emotion_data, head_angle, task_time,
  server_busy, hpc, parsed,
  \* sketch_jul22a only (it shares angle, lastMoveTime, now, current_emotion
  \* and current_sentiment with the names of the full controller)
  person_detected, stable_person_detected, people_count, sweepingRight,
  lastHeadDataReceived, lastEmotionDataReceived, detection_change_time,
  lastDebugTime

emotionVars == <<current_emotion, current_sentiment, emotion_mode_active,
                 head_tracking_enabled, emotion_mode_start>>
inboxVars == <<pendingEmotion, pendingEmotionValue, pendingHead,
               pendingHeadNumber, pendingHeadAngle, pendingReset>>
resetVars == <<resetAcknowledged, resetStartTime>>
servoVars == <<headState, leftArmState, rightArmState>>
blinkVars == <<lastBlinkTime, nextBlinkInterval, isBlinking, blinkStartTime, eyesOpen>>
outputVars == <<leds, display>>
localVars == <<emotion, number, angle>>
countVars == <<lastMoveTime, currentDirection, movementSpeed>>
houseVars == <<last_wifi_check, last_heartbeat, reconnectStart>>
historyVars == <<posts, pendingEmotionId, pendingHeadId, pendingResetId, drained>>
loopVars == <<millis, pc, now, shortTicks>>
julVars == <<person_detected, stable_person_detected, people_count,
             sweepingRight, lastHeadDataReceived, lastEmotionDataReceived,
             detection_change_time, lastDebugTime>>
taskVars == <<has_emotion_task, has_head_task, emotion_data, head_angle, task_time,
              server_busy, hpc, parsed, julVars>>

vars == <<loopVars, emotionVars, inboxVars, resetVars, servoVars, blinkVars,
          outputVars, localVars, countVars, houseVars, historyVars, taskVars>>

\* What updateEyeDesign draws.
Eyes(e, open) == [emotion |-> e, open |-> open]

Init ==
  /\ millis = SetupDoneMillis
  /\ pc = "loop"
  /\ now = 0
  /\ current_emotion = happy
  /\ current_sentiment = happy
  /\ emotion_mode_active = FALSE
  /\ head_tracking_enabled = TRUE
  /\ emotion_mode_start = 0
  /\ pendingEmotion = FALSE
  /\ pendingEmotionValue = emptyString
  /\ pendingHead = FALSE
  /\ pendingHeadNumber = NO_VALUE
  /\ pendingHeadAngle = NO_VALUE
  /\ pendingReset = FALSE
  /\ resetAcknowledged = FALSE
  /\ resetStartTime = 0
  /\ headState = ServoState(90, 90, 45, 135)
  /\ leftArmState = ServoState(180, 180, 0, 180)
  /\ rightArmState = ServoState(0, 0, 0, 180)
  /\ lastBlinkTime = SetupBlinkMillis
  /\ nextBlinkInterval \in BlinkIntervals
  /\ isBlinking = FALSE
  /\ blinkStartTime = 0
  /\ eyesOpen = TRUE
  /\ leds = COLOR_HAPPY
  /\ display = Eyes(happy, TRUE)
  /\ emotion = emptyString
  /\ number = NO_VALUE
  /\ angle = NO_VALUE
  /\ lastMoveTime = 0
  /\ currentDirection = 1
  /\ movementSpeed = 5
  /\ last_wifi_check = 0
  /\ last_heartbeat = 0
  /\ reconnectStart = 0
  /\ posts = << >>
  /\ pendingEmotionId = 0
  /\ pendingHeadId = 0
  /\ pendingResetId = 0
  /\ drained = << >>
  /\ shortTicks = 0
  /\ has_emotion_task = FALSE
  /\ has_head_task = FALSE
  /\ emotion_data = emptyString
  /\ head_angle = 90
  /\ task_time = 0
  /\ server_busy = FALSE
  /\ hpc = "idle"
  /\ parsed = NO_VALUE
  /\ person_detected = FALSE
  /\ stable_person_detected = FALSE
  /\ people_count = 0
  /\ sweepingRight = TRUE
  /\ lastHeadDataReceived = 0
  /\ lastEmotionDataReceived = 0
  /\ detection_change_time = 0
  /\ lastDebugTime = 0

----------------------------------------------------------------------------
\* Web handlers (network context).  Each accepted request writes its mailbox
\* inside one noInterrupts() section.

\* The requests still to come: every run takes a bounded number of them.
RequestsLeft(limit) == Len(posts) < limit

Post(kind, payload) ==
  posts' = Append(posts, [kind |-> kind, payload |-> payload])

\* onReceiveHandler that leaves a payload that is still pending in place.
onReceiveHandlerKeepsFirst(body) ==
  LET sentiment == toLowerCase(body)
  IN /\ pendingEmotionValue' = IF pendingEmotion THEN pendingEmotionValue ELSE sentiment
     /\ pendingEmotion' = TRUE
     /\ Post("emotion", sentiment)
     /\ pendingEmotionId' = Len(posts) + 1
     /\ UNCHANGED <<pendingHead, pendingHeadNumber, pendingHeadAngle,
                    pendingReset,
                    pendingHeadId, pendingResetId, drained>>
     /\ UNCHANGED <<loopVars, emotionVars, resetVars, servoVars, blinkVars,
                    outputVars, localVars, countVars, houseVars, taskVars>>

onReceiveHandler(body) ==
  LET sentiment == toLowerCase(body)
  IN /\ pendingEmotionValue' = sentiment
     /\ pendingEmotion' = TRUE
     /\ Post("emotion", sentiment)
     /\ pendingEmotionId' = Len(posts) + 1
     /\ UNCHANGED <<pendingHead, pendingHeadNumber, pendingHeadAngle,
                    pendingReset,
                    pendingHeadId, pendingResetId, drained>>
     /\ UNCHANGED <<loopVars, emotionVars, resetVars, servoVars, blinkVars,
                    outputVars, localVars, countVars, houseVars, taskVars>>

\* POST /receive answered 400: the body is not JSON or has no "sentiment".
onReceiveHandlerRejected(error) ==
  /\ Post("rejected", error)
  /\ UNCHANGED <<inboxVars, pendingEmotionId, pendingHeadId, pendingResetId,
                 drained>>
  /\ UNCHANGED <<loopVars, emotionVars, resetVars, servoVars, blinkVars,
                 outputVars, localVars, countVars, houseVars, taskVars>>

\* POST /head: has_number / has_angle say which fields the body holds.
onHeadHandler(has_number, n, has_angle, a) ==
  /\ has_number \/ has_angle
  /\ IF has_number
       THEN /\ pendingHeadNumber' = n
            /\ pendingHeadAngle' = NO_VALUE
       ELSE /\ pendingHeadAngle' = a
            /\ pendingHeadNumber' = NO_VALUE
  /\ pendingHead' = TRUE
  /\ Post("head", <<pendingHeadNumber', pendingHeadAngle'>>)
  /\ pendingHeadId' = Len(posts) + 1
  /\ UNCHANGED <<pendingEmotion, pendingEmotionValue, pendingReset,
                 pendingEmotionId, pendingResetId, drained>>
  /\ UNCHANGED <<loopVars, emotionVars, resetVars, servoVars, blinkVars,
                 outputVars, localVars, countVars, houseVars, taskVars>>

\* POST /head answered 400: the body is not JSON or has neither "number"
\* nor "angle".
onHeadHandlerRejected(error) ==
  /\ Post("rejected", error)
  /\ UNCHANGED <<inboxVars, pendingEmotionId, pendingHeadId, pendingResetId,
                 drained>>
  /\ UNCHANGED <<loopVars, emotionVars, resetVars, servoVars, blinkVars,
                 outputVars, localVars, countVars, houseVars, taskVars>>

\* onHeadPositionHandlerRejected that has queued the middle angle before it
\* answers 400.
onHeadPositionHandlerRejectedLate(error) ==
  /\ Post("rejected", error)
  /\ pendingHeadAngle' = 90
  /\ pendingHeadNumber' = NO_VALUE
  /\ pendingHead' = TRUE
  /\ UNCHANGED <<pendingEmotion, pendingEmotionValue, pendingReset,
                 pendingEmotionId, pendingHeadId, pendingResetId, drained>>
  /\ UNCHANGED <<loopVars, emotionVars, resetVars, servoVars, blinkVars,
                 outputVars, localVars, countVars, houseVars, taskVars>>

\* POST /head_position answered 400: the body is not JSON or lacks "x" or
\* "frame_width".
onHeadPositionHandlerRejected(error) ==
  /\ Post("rejected", error)
  /\ UNCHANGED <<inboxVars, pendingEmotionId, pendingHeadId, pendingResetId,
                 drained>>
  /\ UNCHANGED <<loopVars, emotionVars, resetVars, servoVars, blinkVars,
                 outputVars, localVars, countVars, houseVars, taskVars>>

\* onHeadPositionHandler without the emotion-mode test.
onHeadPositionHandlerUngated(personX, frameWidth) ==
  LET headAngle == map(personX, 0, frameWidth, headState.minPos, headState.maxPos)
  IN /\ pendingHeadAngle' = headAngle
     /\ pendingHeadNumber' = NO_VALUE
     /\ pendingHead' = TRUE
     /\ Post("head", <<NO_VALUE, headAngle>>)
     /\ pendingHeadId' = Len(posts) + 1
     /\ UNCHANGED <<pendingEmotion, pendingEmotionValue, pendingReset,
                    pendingEmotionId, pendingResetId, drained>>
     /\ UNCHANGED <<loopVars, emotionVars, resetVars, servoVars, blinkVars,
                    outputVars, localVars, countVars, houseVars, taskVars>>

onHeadPositionHandler(personX, frameWidth) ==
  \E headAngle \in mapCall(personX, 0, frameWidth,
                           headState.minPos, headState.maxPos) :
    IF headAngle.fault
      THEN /\ pc' = "fault"
           /\ UNCHANGED <<millis, now, shortTicks, inboxVars, historyVars,
                          emotionVars, resetVars, servoVars, blinkVars,
                          outputVars, localVars, countVars, houseVars, taskVars>>
      ELSE /\ IF ~emotion_mode_active /\ head_tracking_enabled
                THEN /\ pendingHeadAngle' = headAngle.value
                     /\ pendingHeadNumber' = NO_VALUE
                     /\ pendingHead' = TRUE
                     /\ Post("head", <<NO_VALUE, headAngle.value>>)
                     /\ pendingHeadId' = Len(posts) + 1
                ELSE /\ Post("ignored", <<NO_VALUE, headAngle.value>>)
                     /\ UNCHANGED <<pendingHeadAngle, pendingHeadNumber,
                                    pendingHead, pendingHeadId>>
           /\ UNCHANGED <<pendingEmotion, pendingEmotionValue, pendingReset,
                          pendingEmotionId, pendingResetId, drained>>
           /\ UNCHANGED <<loopVars, emotionVars, resetVars, servoVars, blinkVars,
                          outputVars, localVars, countVars, houseVars, taskVars>>

onResetHandler ==
  /\ pendingReset' = TRUE
  /\ Post("reset", << >>)
  /\ pendingResetId' = Len(posts) + 1
  /\ UNCHANGED <<pendingEmotion, pendingEmotionValue, pendingHead,
                 pendingHeadNumber, pendingHeadAngle,
                 pendingEmotionId, pendingHeadId, drained>>
  /\ UNCHANGED <<loopVars, emotionVars, resetVars, servoVars, blinkVars,
                 outputVars, localVars, countVars, houseVars, taskVars>>

----------------------------------------------------------------------------
\* Main loop: processPendingRequests.

\* loop() takes its timestamp, then processPendingRequests tests the reset
\* mailbox (the test is outside the critical section).
ResetTest ==
  /\ pc = "loop"
  /\ now' = millis
  /\ pc' = IF pendingReset /\ ~resetAcknowledged THEN "reset_ack" ELSE "reset_exec"
  /\ UNCHANGED <<millis, shortTicks, emotionVars, inboxVars, resetVars,
                 servoVars,
                 blinkVars, outputVars, localVars, countVars, houseVars,
                 taskVars, historyVars>>

\* The reset is acknowledged inside the critical section; the yellow
\* flashLEDs(.., 3, 300) then blocks and restores the emotion colour.
ResetAck ==
  /\ pc = "reset_ack"
  /\ resetAcknowledged' = TRUE
  /\ resetStartTime' = millis
  /\ pendingReset' = FALSE
  /\ millis' = millis + flashLEDsTime(3, 300)
  /\ leds' = EmotionColor(current_emotion)
  /\ drained' = Append(drained, [id |-> pendingResetId, payload |-> << >>])
  /\ pc' = "reset_exec"
  /\ UNCHANGED <<now, shortTicks, emotionVars, pendingEmotion,
                 pendingEmotionValue,
                 pendingHead, pendingHeadNumber, pendingHeadAngle, servoVars,
                 blinkVars, display, localVars, countVars, houseVars, taskVars, posts,
                 pendingEmotionId, pendingHeadId, pendingResetId>>

\* ResetExec that does not wait for the delay.
ResetExecAtOnce ==
  /\ pc = "reset_exec"
  /\ pc' = "emo_test"
  /\ IF resetAcknowledged
       THEN /\ resetAcknowledged' = FALSE
            /\ current_emotion' = happy
            /\ current_sentiment' = happy
            /\ emotion_mode_active' = FALSE
            /\ head_tracking_enabled' = TRUE
            /\ display' = Eyes(happy, eyesOpen)
            /\ leds' = EmotionColor(happy)
            /\ headState' = moveServoSafely(headState, 90)
            /\ leftArmState' = moveServoSafely(leftArmState, 180)
            /\ rightArmState' = moveServoSafely(rightArmState, 0)
            /\ lastBlinkTime' = millis
            /\ nextBlinkInterval' \in BlinkIntervals
            /\ isBlinking' = FALSE
            /\ eyesOpen' = TRUE
            /\ UNCHANGED <<emotion_mode_start, resetStartTime, blinkStartTime>>
       ELSE UNCHANGED <<emotionVars, resetVars, servoVars, blinkVars,
                        outputVars>>
  /\ UNCHANGED <<millis, now, shortTicks, inboxVars, localVars, countVars,
                 houseVars, taskVars, historyVars>>

\* ResetExec that keeps the sentiment label.
ResetExecKeepsSentiment ==
  /\ pc = "reset_exec"
  /\ pc' = "emo_test"
  /\ IF resetAcknowledged /\ ULongSub(millis, resetStartTime) >= RESET_DELAY
       THEN /\ resetAcknowledged' = FALSE
            /\ current_emotion' = happy
            /\ current_sentiment' = current_sentiment
            /\ emotion_mode_active' = FALSE
            /\ head_tracking_enabled' = TRUE
            /\ display' = Eyes(happy, eyesOpen)
            /\ leds' = EmotionColor(happy)
            /\ headState' = moveServoSafely(headState, 90)
            /\ leftArmState' = moveServoSafely(leftArmState, 180)
            /\ rightArmState' = moveServoSafely(rightArmState, 0)
            /\ lastBlinkTime' = millis
            /\ nextBlinkInterval' \in BlinkIntervals
            /\ isBlinking' = FALSE
            /\ eyesOpen' = TRUE
            /\ UNCHANGED <<emotion_mode_start, resetStartTime, blinkStartTime>>
       ELSE UNCHANGED <<emotionVars, resetVars, servoVars, blinkVars,
                        outputVars>>
  /\ UNCHANGED <<millis, now, shortTicks, inboxVars, localVars, countVars,
                 houseVars, taskVars, historyVars>>

\* The deferred reset runs once 5 seconds have passed since the
\* acknowledgment.
ResetExec ==
  /\ pc = "reset_exec"
  /\ pc' = "emo_test"
  /\ IF resetAcknowledged /\ ULongSub(millis, resetStartTime) >= RESET_DELAY
       THEN /\ resetAcknowledged' = FALSE
            /\ current_emotion' = happy
            /\ current_sentiment' = happy
            /\ emotion_mode_active' = FALSE
            /\ head_tracking_enabled' = TRUE
            /\ display' = Eyes(happy, eyesOpen)
            /\ leds' = EmotionColor(happy)
            /\ headState' = moveServoSafely(headState, 90)
            /\ leftArmState' = moveServoSafely(leftArmState, 180)
            /\ rightArmState' = moveServoSafely(rightArmState, 0)
            /\ lastBlinkTime' = millis
            /\ nextBlinkInterval' \in BlinkIntervals
            /\ isBlinking' = FALSE
            /\ eyesOpen' = TRUE
            /\ UNCHANGED <<emotion_mode_start, resetStartTime, blinkStartTime>>
       ELSE UNCHANGED <<emotionVars, resetVars, servoVars, blinkVars,
                        outputVars>>
  /\ UNCHANGED <<millis, now, shortTicks, inboxVars, localVars, countVars,
                 houseVars, taskVars, historyVars>>

\* if (pendingEmotion): tested outside the critical section.
EmotionTest ==
  /\ pc = "emo_test"
  /\ pc' = IF pendingEmotion THEN "emo_drain" ELSE "head_test"
  /\ UNCHANGED <<millis, now, shortTicks, emotionVars, inboxVars, resetVars,
                 servoVars, blinkVars, outputVars, localVars, countVars, houseVars, taskVars,
                 historyVars>>

\* EmotionDrain that leaves pendingEmotion set.
EmotionDrainKeepsFlag ==
  /\ pc = "emo_drain"
  /\ emotion' = pendingEmotionValue
  /\ pendingEmotion' = pendingEmotion
  /\ pendingEmotionValue' = emptyString
  /\ current_sentiment' = emotion'
  /\ current_emotion' = emotion'
  /\ emotion_mode_active' = TRUE
  /\ head_tracking_enabled' = FALSE
  /\ emotion_mode_start' = millis
  /\ display' = Eyes(emotion', eyesOpen)
  /\ leds' = EmotionColor(emotion')
  /\ millis' = millis + EmotionEffectTime(emotion')
  /\ leftArmState' = moveServoSafely(leftArmState, EmotionPose(emotion')[1])
  /\ rightArmState' = moveServoSafely(rightArmState, EmotionPose(emotion')[2])
  /\ headState' = moveServoSafely(headState, EmotionPose(emotion')[3])
  /\ drained' = Append(drained, [id |-> pendingEmotionId, payload |-> emotion',
                                 result |-> <<leftArmState'.targetPos,
                                              rightArmState'.targetPos,
                                              headState'.targetPos, leds'>>])
  /\ pc' = "head_test"
  /\ UNCHANGED <<now, shortTicks, pendingHead, pendingHeadNumber,
                 pendingHeadAngle,
                 pendingReset, resetVars, blinkVars, number, angle, countVars,
                 houseVars, taskVars, posts, pendingEmotionId, pendingHeadId,
                 pendingResetId>>

\* The emotion mailbox is copied out and cleared in the critical section;
\* the command is then applied: state, eyes, LEDs and effect, poses.
EmotionDrain ==
  /\ pc = "emo_drain"
  /\ emotion' = pendingEmotionValue
  /\ pendingEmotion' = FALSE
  /\ pendingEmotionValue' = emptyString
  /\ current_sentiment' = emotion'
  /\ current_emotion' = emotion'
  /\ emotion_mode_active' = TRUE
  /\ head_tracking_enabled' = FALSE
  /\ emotion_mode_start' = millis
  /\ display' = Eyes(emotion', eyesOpen)
  /\ leds' = EmotionColor(emotion')
  /\ millis' = millis + EmotionEffectTime(emotion')
  /\ leftArmState' = moveServoSafely(leftArmState, EmotionPose(emotion')[1])
  /\ rightArmState' = moveServoSafely(rightArmState, EmotionPose(emotion')[2])
  /\ headState' = moveServoSafely(headState, EmotionPose(emotion')[3])
  /\ drained' = Append(drained, [id |-> pendingEmotionId, payload |-> emotion',
                                 result |-> <<leftArmState'.targetPos,
                                              rightArmState'.targetPos,
                                              headState'.targetPos, leds'>>])
  /\ pc' = "head_test"
  /\ UNCHANGED <<now, shortTicks, pendingHead, pendingHeadNumber,
                 pendingHeadAngle,
                 pendingReset, resetVars, blinkVars, number, angle, countVars,
                 houseVars, taskVars, posts, pendingEmotionId, pendingHeadId,
                 pendingResetId>>

\* if (pendingHead): tested outside the critical section.
HeadTest ==
  /\ pc = "head_test"
  /\ pc' = IF pendingHead THEN "head_drain" ELSE "servo"
  /\ UNCHANGED <<millis, now, shortTicks, emotionVars, inboxVars, resetVars,
                 servoVars, blinkVars, outputVars, localVars, countVars, houseVars, taskVars,
                 historyVars>>

\* CountDirection that never turns round.
CountDirectionKept(n, flip) == currentDirection

\* The person-count branch: the angle requested and the direction kept,
\* for a count n, with flip the outcome of random(0, 100) < 30.
CountSpeed(n) == IF n >= 1 THEN 8 ELSE movementSpeed
CountAngle(n) ==
  constrain(headState.currentPos + currentDirection * CountSpeed(n),
            headState.minPos, headState.maxPos)
\* CountDirection whose random reversal comes after the bound checks.
CountDirectionFlipLast(n, flip) ==
  LET newAngle == headState.currentPos + currentDirection * CountSpeed(n)
      kept == IF newAngle >= headState.maxPos THEN -1
              ELSE IF newAngle <= headState.minPos THEN 1
              ELSE currentDirection
  IN IF n < 0 THEN currentDirection
     ELSE IF n >= 1 /\ flip THEN -kept ELSE kept

CountDirection(n, flip) ==
  LET newAngle == headState.currentPos + currentDirection * CountSpeed(n)
  IN IF n < 0 THEN currentDirection
     ELSE IF newAngle >= headState.maxPos THEN -1
     ELSE IF newAngle <= headState.minPos THEN 1
     ELSE IF n >= 1 /\ flip THEN -currentDirection
     ELSE currentDirection

\* int newAngle is assigned in the branch of count 0 and in the branch of
\* counts of 1 and more, and in no other.
newAngleAssigned(n) == n = 0 \/ n >= 1

\* What moveServoSafely may be passed: the angle of the branch taken or,
\* with no branch taken, whatever the unassigned local holds.
CountNewAngles(n) ==
  IF newAngleAssigned(n) THEN {CountAngle(n)} ELSE UninitInts

\* HeadDrain without the emotion-mode gate.
HeadDrainUngated ==
  /\ pc = "head_drain"
  /\ number' = pendingHeadNumber
  /\ angle' = pendingHeadAngle
  /\ pendingHead' = FALSE
  /\ pendingHeadNumber' = NO_VALUE
  /\ pendingHeadAngle' = NO_VALUE
  /\ drained' = Append(drained, [id |-> pendingHeadId, payload |-> <<number', angle'>>])
  /\ pc' = "servo"
  /\ IF TRUE
       THEN IF angle' # NO_VALUE
              THEN /\ headState' = moveServoSafely(headState,
                          constrain(angle', headState.minPos, headState.maxPos))
                   /\ UNCHANGED countVars
            ELSE IF number' # NO_VALUE /\ ULongSub(millis, lastMoveTime) > HEAD_MOVE_INTERVAL
              THEN \E flip \in BOOLEAN, newAngle \in CountNewAngles(number') :
                   /\ headState' = moveServoSafely(headState, newAngle)
                   /\ currentDirection' = CountDirection(number', flip)
                   /\ movementSpeed' = CountSpeed(number')
                   /\ lastMoveTime' = millis
            ELSE UNCHANGED <<headState, countVars>>
       ELSE UNCHANGED <<headState, countVars>>
  /\ UNCHANGED <<millis, now, shortTicks, emotionVars, pendingEmotion,
                 pendingEmotionValue, pendingReset, resetVars, leftArmState,
                 rightArmState, blinkVars, outputVars, emotion, houseVars, taskVars, posts,
                 pendingEmotionId, pendingHeadId, pendingResetId>>

\* HeadDrain whose count branch does not wait for the interval.
HeadDrainEveryCount ==
  /\ pc = "head_drain"
  /\ number' = pendingHeadNumber
  /\ angle' = pendingHeadAngle
  /\ pendingHead' = FALSE
  /\ pendingHeadNumber' = NO_VALUE
  /\ pendingHeadAngle' = NO_VALUE
  /\ drained' = Append(drained, [id |-> pendingHeadId, payload |-> <<number', angle'>>])
  /\ pc' = "servo"
  /\ IF ~emotion_mode_active /\ head_tracking_enabled
       THEN IF angle' # NO_VALUE
              THEN /\ headState' = moveServoSafely(headState,
                          constrain(angle', headState.minPos, headState.maxPos))
                   /\ UNCHANGED countVars
            ELSE IF number' # NO_VALUE
              THEN \E flip \in BOOLEAN, newAngle \in CountNewAngles(number') :
                   /\ headState' = moveServoSafely(headState, newAngle)
                   /\ currentDirection' = CountDirection(number', flip)
                   /\ movementSpeed' = CountSpeed(number')
                   /\ lastMoveTime' = millis
            ELSE UNCHANGED <<headState, countVars>>
       ELSE UNCHANGED <<headState, countVars>>
  /\ UNCHANGED <<millis, now, shortTicks, emotionVars, pendingEmotion,
                 pendingEmotionValue, pendingReset, resetVars, leftArmState,
                 rightArmState, blinkVars, outputVars, emotion, houseVars, taskVars, posts,
                 pendingEmotionId, pendingHeadId, pendingResetId>>

\* The head mailbox is copied out and cleared in the critical section; the
\* command moves the head only outside emotion mode.
HeadDrain ==
  /\ pc = "head_drain"
  /\ number' = pendingHeadNumber
  /\ angle' = pendingHeadAngle
  /\ pendingHead' = FALSE
  /\ pendingHeadNumber' = NO_VALUE
  /\ pendingHeadAngle' = NO_VALUE
  /\ drained' = Append(drained, [id |-> pendingHeadId, payload |-> <<number', angle'>>])
  /\ pc' = "servo"
  /\ IF ~emotion_mode_active /\ head_tracking_enabled
       THEN IF angle' # NO_VALUE
              THEN /\ headState' = moveServoSafely(headState,
                          constrain(angle', headState.minPos, headState.maxPos))
                   /\ UNCHANGED countVars
            ELSE IF number' # NO_VALUE /\ ULongSub(millis, lastMoveTime) > HEAD_MOVE_INTERVAL
              THEN \E flip \in BOOLEAN, newAngle \in CountNewAngles(number') :
                   /\ headState' = moveServoSafely(headState, newAngle)
                   /\ currentDirection' = CountDirection(number', flip)
                   /\ movementSpeed' = CountSpeed(number')
                   /\ lastMoveTime' = millis
            ELSE UNCHANGED <<headState, countVars>>
       ELSE UNCHANGED <<headState, countVars>>
  /\ UNCHANGED <<millis, now, shortTicks, emotionVars, pendingEmotion,
                 pendingEmotionValue, pendingReset, resetVars, leftArmState,
                 rightArmState, blinkVars, outputVars, emotion, houseVars, taskVars, posts,
                 pendingEmotionId, pendingHeadId, pendingResetId>>

----------------------------------------------------------------------------
\* Main loop: the rest of loop().

\* updateServoPositions reads millis() itself.
updateServoPositions ==
  /\ pc = "servo"
  /\ headState' = UpdateAxis(headState, millis)
  /\ leftArmState' = UpdateAxis(leftArmState, millis)
  /\ rightArmState' = UpdateAxis(rightArmState, millis)
  /\ pc' = "blink"
  /\ UNCHANGED <<millis, now, shortTicks, emotionVars, inboxVars, resetVars,
                 blinkVars, outputVars, localVars, countVars, houseVars,
                 taskVars, historyVars>>

updateEyeBlinking ==
  /\ pc = "blink"
  /\ pc' = "timeout"
  /\ IF isBlinking
       THEN IF ULongSub(millis, blinkStartTime) >= BLINK_DURATION
              THEN /\ isBlinking' = FALSE
                   /\ eyesOpen' = TRUE
                   /\ display' = Eyes(current_emotion, TRUE)
                   /\ nextBlinkInterval' \in BlinkIntervals
                   /\ lastBlinkTime' = millis
                   /\ UNCHANGED blinkStartTime
              ELSE UNCHANGED <<blinkVars, display>>
       ELSE IF ULongSub(millis, lastBlinkTime) >= nextBlinkInterval
              THEN /\ isBlinking' = TRUE
                   /\ eyesOpen' = FALSE
                   /\ blinkStartTime' = millis
                   /\ display' = Eyes(current_emotion, FALSE)
                   /\ UNCHANGED <<lastBlinkTime, nextBlinkInterval>>
              ELSE UNCHANGED <<blinkVars, display>>
  /\ UNCHANGED <<millis, now, shortTicks, emotionVars, inboxVars, resetVars,
                 servoVars, leds, localVars, countVars, houseVars, taskVars,
                 historyVars>>

\* EmotionTimeout that does not give head tracking back.
EmotionTimeoutKeepsTracking ==
  /\ pc = "timeout"
  /\ pc' = "wifi"
  /\ IF emotion_mode_active /\ ULongSub(now, emotion_mode_start) > EMOTION_MODE_DURATION
       THEN /\ emotion_mode_active' = FALSE
            /\ head_tracking_enabled' = head_tracking_enabled
            /\ current_emotion' = happy
            /\ current_sentiment' = happy
            /\ display' = Eyes(happy, eyesOpen)
            /\ leds' = EmotionColor(happy)
            /\ headState' = moveServoSafely(headState, 90)
            /\ leftArmState' = moveServoSafely(leftArmState, 180)
            /\ rightArmState' = moveServoSafely(rightArmState, 0)
            /\ UNCHANGED emotion_mode_start
       ELSE UNCHANGED <<emotionVars, outputVars, servoVars>>
  /\ UNCHANGED <<millis, now, shortTicks, inboxVars, resetVars, blinkVars,
                 localVars, countVars, houseVars, taskVars, historyVars>>

\* Auto-exit of emotion mode: compares the timestamp taken at the top of
\* loop() with emotion_mode_start.
EmotionTimeout ==
  /\ pc = "timeout"
  /\ pc' = "wifi"
  /\ IF emotion_mode_active /\ ULongSub(now, emotion_mode_start) > EMOTION_MODE_DURATION
       THEN /\ emotion_mode_active' = FALSE
            /\ head_tracking_enabled' = TRUE
            /\ current_emotion' = happy
            /\ current_sentiment' = happy
            /\ display' = Eyes(happy, eyesOpen)
            /\ leds' = EmotionColor(happy)
            /\ headState' = moveServoSafely(headState, 90)
            /\ leftArmState' = moveServoSafely(leftArmState, 180)
            /\ rightArmState' = moveServoSafely(rightArmState, 0)
            /\ UNCHANGED emotion_mode_start
       ELSE UNCHANGED <<emotionVars, outputVars, servoVars>>
  /\ UNCHANGED <<millis, now, shortTicks, inboxVars, resetVars, blinkVars,
                 localVars, countVars, houseVars, taskVars, historyVars>>

\* WiFi health check.  statuses are the outcomes of WiFi.status(): the link
\* is up, comes back after one 500 ms wait, or stays down for the 10
\* seconds; either reconnection outcome is followed by flashLEDs(.., 2, 150).
WifiCheck(statuses) ==
  /\ pc = "wifi"
  /\ pc' = "heartbeat"
  /\ IF ULongSub(now, last_wifi_check) > WIFI_CHECK_INTERVAL
       THEN /\ last_wifi_check' = now
            /\ \E status \in statuses :
                 IF status = "connected"
                   THEN UNCHANGED <<millis, leds, reconnectStart>>
                   ELSE /\ reconnectStart' = millis
                        /\ millis' = millis + (IF status = "failed" THEN 10000 ELSE 500)
                                    + flashLEDsTime(2, 150)
                        /\ leds' = EmotionColor(current_emotion)
       ELSE UNCHANGED <<last_wifi_check, millis, leds, reconnectStart>>
  /\ UNCHANGED <<now, shortTicks, emotionVars, inboxVars, resetVars, servoVars,
                 blinkVars, display, localVars, countVars, last_heartbeat,
                 historyVars, taskVars>>

\* The WiFi health check step by step.  First the test of the interval and
\* of the link: with the link down the reconnection starts (WiFi.disconnect,
\* WiFi.begin, reconnectStart = millis()).
WifiHealthCheck(statuses) ==
  /\ pc = "wifi"
  /\ IF ULongSub(now, last_wifi_check) > WIFI_CHECK_INTERVAL
       THEN /\ last_wifi_check' = now
            /\ \E status \in statuses :
                 IF status = "connected"
                   THEN pc' = "heartbeat" /\ UNCHANGED reconnectStart
                   ELSE pc' = "wifi_wait" /\ reconnectStart' = millis
       ELSE pc' = "heartbeat" /\ UNCHANGED <<last_wifi_check, reconnectStart>>
  /\ UNCHANGED <<millis, now, shortTicks, emotionVars, inboxVars, resetVars,
                 servoVars, blinkVars, outputVars, localVars, countVars,
                 last_heartbeat, historyVars, taskVars>>

\* One evaluation of the condition of the wait loop, while (WiFi.status()
\* != WL_CONNECTED && millis() - reconnectStart < 10000): either delay(500)
\* and round again, or the loop ends and flashLEDs(.., 2, 150) reports the
\* outcome, green or red, and the emotion colour is set again.
WifiReconnectWait(statuses) ==
  /\ pc = "wifi_wait"
  /\ \E status \in statuses :
       IF status # "connected" /\ ULongSub(millis, reconnectStart) < 10000
         THEN /\ millis' = millis + 500
              /\ UNCHANGED <<pc, leds>>
         ELSE /\ millis' = millis + flashLEDsTime(2, 150)
              /\ leds' = EmotionColor(current_emotion)
              /\ pc' = "heartbeat"
  /\ UNCHANGED <<now, shortTicks, emotionVars, inboxVars, resetVars, servoVars,
                 blinkVars, display, localVars, countVars, houseVars,
                 historyVars, taskVars>>

\* Heartbeat log; lowMemory is ESP.getFreeHeap() < 50000, which flashes
\* the strip (flashLEDs(.., 2, 100)); heap says which outcomes occur.
Heartbeat(heap) ==
  /\ pc = "heartbeat"
  /\ pc' = "delay"
  /\ IF ULongSub(now, last_heartbeat) > HEARTBEAT_INTERVAL
       THEN /\ last_heartbeat' = now
            /\ \E lowMemory \in heap :
                 IF lowMemory
                   THEN /\ millis' = millis + flashLEDsTime(2, 100)
                        /\ leds' = EmotionColor(current_emotion)
                   ELSE UNCHANGED <<millis, leds>>
       ELSE UNCHANGED <<last_heartbeat, millis, leds>>
  /\ UNCHANGED <<now, shortTicks, emotionVars, inboxVars, resetVars, servoVars,
                 blinkVars, display, localVars, countVars, last_wifi_check,
                 reconnectStart, historyVars, taskVars>>

\* delay(20) at the end of loop(): the iteration ends after the bare delay,
\* or later when the task is held up.
LoopDelay ==
  /\ pc = "delay"
  /\ pc' = "loop"
  /\ \/ /\ shortTicks < MaxShortTicks
        /\ millis + LOOP_DELAY <= MaxTime
        /\ millis' = millis + LOOP_DELAY
        /\ shortTicks' = shortTicks + 1
     \/ /\ millis + LongElapse <= MaxTime
        /\ millis' = millis + LongElapse
        /\ UNCHANGED shortTicks
  /\ UNCHANGED <<now, emotionVars, inboxVars, resetVars, servoVars, blinkVars,
                 outputVars, localVars, countVars, houseVars, taskVars,
                 historyVars>>

\* The end of loop() when every iteration takes SweepElapse ms.
SweepDelay ==
  /\ pc = "delay"
  /\ pc' = "loop"
  /\ millis + SweepElapse <= SweepTime
  /\ millis' = millis + SweepElapse
  /\ UNCHANGED <<now, shortTicks, emotionVars, inboxVars, resetVars, servoVars,
                 blinkVars, outputVars, localVars, countVars, houseVars,
                 taskVars, historyVars>>

\* The end of loop() in SpecTrack: every iteration takes SweepElapse ms.
TrackDelay ==
  /\ pc = "delay"
  /\ pc' = "loop"
  /\ millis + SweepElapse <= TrackTime
  /\ millis' = millis + SweepElapse
  /\ UNCHANGED <<now, shortTicks, emotionVars, inboxVars, resetVars, servoVars,
                 blinkVars, outputVars, localVars, countVars, houseVars,
                 taskVars, historyVars>>

\* The end of loop() in SpecWifi: an iteration ends WifiElapse ms after
\* its last step.
WifiDelay ==
  /\ pc = "delay"
  /\ pc' = "loop"
  /\ millis + WifiElapse <= WifiTime
  /\ millis' = millis + WifiElapse
  /\ UNCHANGED <<now, shortTicks, emotionVars, inboxVars, resetVars, servoVars,
                 blinkVars, outputVars, localVars, countVars, houseVars,
                 taskVars, historyVars>>

\* The end of loop() in SpecCount: the iteration ends after the bare
\* delay(20), or is held up to end HEAD_MOVE_INTERVAL ms later.
CountDelay ==
  /\ pc = "delay"
  /\ pc' = "loop"
  /\ \/ /\ shortTicks < CountShortTicks
        /\ millis + LOOP_DELAY <= CountTime
        /\ millis' = millis + LOOP_DELAY
        /\ shortTicks' = shortTicks + 1
     \/ /\ millis + HEAD_MOVE_INTERVAL <= CountTime
        /\ millis' = millis + HEAD_MOVE_INTERVAL
        /\ UNCHANGED shortTicks
  /\ UNCHANGED <<now, emotionVars, inboxVars, resetVars, servoVars, blinkVars,
                 outputVars, localVars, countVars, houseVars, taskVars,
                 historyVars>>

----------------------------------------------------------------------------
\* Specification.

\* The requests of one network-context step.
Handlers(sentiments, numbers, angles, positions) ==
  \/ \E body \in sentiments : RequestsLeft(MaxPosts) /\ onReceiveHandler(body)
  \/ \E n \in numbers :
       RequestsLeft(MaxPosts) /\ onHeadHandler(TRUE, n, FALSE, NO_VALUE)
  \/ \E a \in angles :
       RequestsLeft(MaxPosts) /\ onHeadHandler(FALSE, NO_VALUE, TRUE, a)
  \/ \E xw \in positions :
       RequestsLeft(MaxPosts) /\ onHeadPositionHandler(xw[1], xw[2])
  \/ RequestsLeft(MaxPosts) /\ onResetHandler

processPendingRequests ==
  \/ ResetTest
  \/ ResetAck
  \/ ResetExec
  \/ EmotionTest
  \/ EmotionDrain
  \/ HeadTest
  \/ HeadDrain

\* One step of loop(), the WiFi link and the heap taking the given outcomes.
loop(statuses, heap) ==
  \/ processPendingRequests
  \/ updateServoPositions
  \/ updateEyeBlinking
  \/ EmotionTimeout
  \/ WifiCheck(statuses)
  \/ Heartbeat(heap)
  \/ LoopDelay

\* The controller with the WiFi link up and the heap not low.
MainLoop == loop({"connected"}, {FALSE})

Next == Handlers(Sentiments, HeadNumbers, HeadAngles, HeadPositions) \/ MainLoop

Spec == Init /\ [][Next]_vars

\* The controller with one request for each mailbox, for the properties of
\* what the loop does in the end.
LiveNext ==
  \/ RequestsLeft(MaxPosts) /\ onReceiveHandler(<<"A","N","G","R","Y">>)
  \/ RequestsLeft(MaxPosts) /\ onHeadHandler(FALSE, NO_VALUE, TRUE, 200)
  \/ RequestsLeft(MaxPosts) /\ onResetHandler
  \/ MainLoop

\* The main loop keeps running: loop() is called again whenever it returns.
LiveSpec == Init /\ [][LiveNext]_vars /\ WF_vars(MainLoop)

\* The controller taking emotion commands, repeated ones among them, and a
\* head angle that lies within the deadband of a pose.
RepeatNext ==
  \/ \E body \in RepeatSentiments :
       RequestsLeft(RepeatPosts) /\ onReceiveHandler(body)
  \/ \E a \in RepeatAngles :
       RequestsLeft(RepeatPosts) /\ onHeadHandler(FALSE, NO_VALUE, TRUE, a)
  \/ RequestsLeft(RepeatPosts) /\ onResetHandler
  \/ MainLoop

SpecRepeat == Init /\ [][RepeatNext]_vars

\* The controller with resets, head angles away from the neutral angle and
\* within the deadband of it, and an emotion.
ResetNext ==
  \/ \E body \in ResetSentiments :
       RequestsLeft(RepeatPosts) /\ onReceiveHandler(body)
  \/ \E a \in ResetAngles :
       RequestsLeft(RepeatPosts) /\ onHeadHandler(FALSE, NO_VALUE, TRUE, a)
  \/ RequestsLeft(RepeatPosts) /\ onResetHandler
  \/ MainLoop

SpecReset == Init /\ [][ResetNext]_vars

\* The controller with person positions across the frame, a label that is
\* in no table, and resets.
PositionNext ==
  \/ \E body \in PositionSentiments :
       RequestsLeft(MaxPosts) /\ onReceiveHandler(body)
  \/ \E xw \in HeadPositionsAcross :
       RequestsLeft(MaxPosts) /\ onHeadPositionHandler(xw[1], xw[2])
  \/ RequestsLeft(MaxPosts) /\ onResetHandler
  \/ MainLoop

SpecPosition == Init /\ [][PositionNext]_vars

\* The controller with a label that is in no table and person positions,
\* and no reset: the reset mailbox stays empty.
UnknownNext ==
  \/ \E body \in PositionSentiments :
       RequestsLeft(RepeatPosts) /\ onReceiveHandler(body)
  \/ \E xw \in HeadPositionsNearMiddle :
       RequestsLeft(RepeatPosts) /\ onHeadPositionHandler(xw[1], xw[2])
  \/ ResetTest
  \/ ResetExec
  \/ EmotionTest
  \/ EmotionDrain
  \/ HeadTest
  \/ HeadDrain
  \/ updateServoPositions
  \/ updateEyeBlinking
  \/ EmotionTimeout
  \/ WifiCheck({"connected"})
  \/ Heartbeat({FALSE})
  \/ LoopDelay

SpecUnknown == Init /\ [][UnknownNext]_vars

\* The controller with the /head bodies of HeadBodies, requests that are
\* answered 400, an emotion and resets.
HeadNext ==
  \/ \E b \in HeadBodies :
       RequestsLeft(MaxPosts) /\ onHeadHandler(b[1], b[2], b[3], b[4])
  \/ \E error \in ReceiveErrors :
       RequestsLeft(MaxPosts) /\ onReceiveHandlerRejected(error)
  \/ \E error \in HeadErrors :
       RequestsLeft(MaxPosts) /\ onHeadHandlerRejected(error)
  \/ \E error \in HeadPositionErrors :
       RequestsLeft(MaxPosts) /\ onHeadPositionHandlerRejected(error)
  \/ RequestsLeft(MaxPosts) /\ onReceiveHandler(sad)
  \/ RequestsLeft(MaxPosts) /\ onResetHandler
  \/ MainLoop

SpecHead == Init /\ [][HeadNext]_vars

\* The controller while a client keeps posting a person count of 0 and
\* nothing else, the next count once the loop has taken the one before:
\* the reset and emotion mailboxes stay empty.
SweepNext ==
  \/ /\ RequestsLeft(SweepPosts)
     /\ ~pendingHead
     /\ onHeadHandler(TRUE, 0, FALSE, NO_VALUE)
  \/ ResetTest
  \/ ResetExec
  \/ EmotionTest
  \/ HeadTest
  \/ HeadDrain
  \/ updateServoPositions
  \/ updateEyeBlinking
  \/ EmotionTimeout
  \/ WifiCheck({"connected"})
  \/ Heartbeat({FALSE})
  \/ SweepDelay

SpecSweep == Init /\ [][SweepNext]_vars

\* The controller with person counts of 0 and 1 and nothing else: the
\* reset and emotion mailboxes stay empty.
CountNext ==
  \/ \E n \in CountNumbers :
       RequestsLeft(RepeatPosts) /\ onHeadHandler(TRUE, n, FALSE, NO_VALUE)
  \/ ResetTest
  \/ ResetExec
  \/ EmotionTest
  \/ HeadTest
  \/ HeadDrain
  \/ updateServoPositions
  \/ updateEyeBlinking
  \/ EmotionTimeout
  \/ WifiCheck({"connected"})
  \/ Heartbeat({FALSE})
  \/ CountDelay

SpecCount == Init /\ [][CountNext]_vars

\* The controller while a client posts person counts, a negative one other
\* than -1 among them.
UnassignedNext ==
  \/ \E n \in UnassignedNumbers :
       RequestsLeft(RepeatPosts) /\ onHeadHandler(TRUE, n, FALSE, NO_VALUE)
  \/ ResetTest
  \/ ResetExec
  \/ EmotionTest
  \/ HeadTest
  \/ HeadDrain
  \/ updateServoPositions
  \/ updateEyeBlinking
  \/ EmotionTimeout
  \/ WifiCheck({"connected"})
  \/ Heartbeat({FALSE})
  \/ CountDelay

SpecUnassigned == Init /\ [][UnassignedNext]_vars

\* The controller while a client posts person positions, one of them in a
\* frame of width 0; after an exception of the CPU nothing runs.
FrameNext ==
  \/ \E p \in HeadPositionsZeroWidth :
       /\ pc # "fault"
       /\ RequestsLeft(RepeatPosts)
       /\ onHeadPositionHandler(p[1], p[2])
  \/ ResetTest
  \/ ResetExec
  \/ EmotionTest
  \/ HeadTest
  \/ HeadDrain
  \/ updateServoPositions
  \/ updateEyeBlinking
  \/ EmotionTimeout
  \/ WifiCheck({"connected"})
  \/ Heartbeat({FALSE})
  \/ CountDelay

SpecFrame == Init /\ [][FrameNext]_vars

\* The controller while a client keeps posting a person count of 1 and
\* nothing else, the next count once the loop has taken the one before.
TrackNext ==
  \/ \E n \in TrackNumbers :
       /\ RequestsLeft(TrackPosts)
       /\ ~pendingHead
       /\ onHeadHandler(TRUE, n, FALSE, NO_VALUE)
  \/ ResetTest
  \/ ResetExec
  \/ EmotionTest
  \/ HeadTest
  \/ HeadDrain
  \/ updateServoPositions
  \/ updateEyeBlinking
  \/ EmotionTimeout
  \/ WifiCheck({"connected"})
  \/ Heartbeat({FALSE})
  \/ TrackDelay

SpecTrack == Init /\ [][TrackNext]_vars

\* The controller with a WiFi link that may be down at any look, and an
\* emotion: the reset and head mailboxes stay empty.
WifiNext ==
  \/ \E body \in WifiSentiments :
       RequestsLeft(WifiPosts) /\ onReceiveHandler(body)
  \/ ResetTest
  \/ ResetExec
  \/ EmotionTest
  \/ EmotionDrain
  \/ HeadTest
  \/ updateServoPositions
  \/ updateEyeBlinking
  \/ EmotionTimeout
  \/ WifiHealthCheck(WifiStatuses)
  \/ WifiReconnectWait(WifiStatuses)
  \/ Heartbeat({FALSE})
  \/ WifiDelay

SpecWifi == Init /\ [][WifiNext]_vars

\* The loop keeps running, as loop() is called again whenever it returns
\* and delay() returns.
LiveSpecWifi == SpecWifi /\ WF_vars(WifiNext)

----------------------------------------------------------------------------
\* sketch_aug2a: the simplified variant.  It has no mailboxes and no critical
\* sections: the web handlers write currentTask (and, for /reset, the robot
\* state) directly, and processSimpleTasks reads it.  The handlers run in
\* the network task, which may run between any two statements of the loop
\* and, on the second core, with the loop between two of its own
\* statements.  It shares the variables of the same name with the full
\* controller; lastBlinkTime holds the static lastBlink of loop().

AUG_SERVO_MOVE_DELAY == 50
AUG_SERVO_DEADBAND == 3
AUG_EMOTION_TIMEOUT == 8000
AUG_BLINK_INTERVAL == 3000
AUG_BLINK_DURATION == 200
AUG_WIFI_CHECK_INTERVAL == 10000

\* millis() at the end of setup(), WiFi associating at once.
AugSetupDoneMillis == 100 + 100 + 3 * 200 + 3 * 500

\* State of the full controller the sketch does not have.
controllerVars == <<current_sentiment, emotion_mode_start, inboxVars, resetVars,
                    nextBlinkInterval, blinkStartTime, eyesOpen, leds, localVars,
                    countVars, last_heartbeat, reconnectStart, pendingResetId,
                    julVars>>

AugInit ==
  /\ millis = AugSetupDoneMillis
  /\ pc = "aug_loop"
  /\ now = 0
  /\ current_emotion = happy
  /\ current_sentiment = happy
  /\ emotion_mode_active = FALSE
  /\ head_tracking_enabled = TRUE
  /\ emotion_mode_start = 0
  /\ pendingEmotion = FALSE
  /\ pendingEmotionValue = emptyString
  /\ pendingHead = FALSE
  /\ pendingHeadNumber = NO_VALUE
  /\ pendingHeadAngle = NO_VALUE
  /\ pendingReset = FALSE
  /\ resetAcknowledged = FALSE
  /\ resetStartTime = 0
  /\ headState = ServoState(90, 90, 60, 120)
  /\ leftArmState = ServoState(180, 180, 0, 180)
  /\ rightArmState = ServoState(0, 0, 0, 180)
  /\ lastBlinkTime = 0
  /\ nextBlinkInterval = AUG_BLINK_INTERVAL
  /\ isBlinking = FALSE
  /\ blinkStartTime = 0
  /\ eyesOpen = TRUE
  /\ leds = COLOR_HAPPY
  /\ display = Eyes(happy, TRUE)
  /\ emotion = emptyString
  /\ number = NO_VALUE
  /\ angle = NO_VALUE
  /\ lastMoveTime = 0
  /\ currentDirection = 1
  /\ movementSpeed = 5
  /\ last_wifi_check = 0
  /\ last_heartbeat = 0
  /\ reconnectStart = 0
  /\ posts = << >>
  /\ pendingEmotionId = 0
  /\ pendingHeadId = 0
  /\ pendingResetId = 0
  /\ drained = << >>
  /\ shortTicks = 0
  /\ has_emotion_task = FALSE
  /\ has_head_task = FALSE
  /\ emotion_data = emptyString
  /\ head_angle = 90
  /\ task_time = 0
  /\ server_busy = FALSE
  /\ hpc = "idle"
  /\ parsed = NO_VALUE
  /\ person_detected = FALSE
  /\ stable_person_detected = FALSE
  /\ people_count = 0
  /\ sweepingRight = TRUE
  /\ lastHeadDataReceived = 0
  /\ lastEmotionDataReceived = 0
  /\ detection_change_time = 0
  /\ lastDebugTime = 0

aug_moveServoSafely(state, targetAngle) ==
  LET safeAngle == constrain(targetAngle, state.minPos, state.maxPos)
  IN IF abs(state.targetPos - safeAngle) > AUG_SERVO_DEADBAND
       THEN [state EXCEPT !.targetPos = safeAngle, !.moving = TRUE]
       ELSE state

aug_UpdateAxis(state, t) ==
  IF state.moving /\ ULongSub(t, state.lastMoveTime) >= AUG_SERVO_MOVE_DELAY
    THEN LET pos == IF state.currentPos < state.targetPos
                      THEN min(state.currentPos + SERVO_STEP_SIZE, state.targetPos)
                    ELSE IF state.currentPos > state.targetPos
                      THEN max(state.currentPos - SERVO_STEP_SIZE, state.targetPos)
                    ELSE state.currentPos
         IN [state EXCEPT !.currentPos = pos,
                          !.lastMoveTime = t,
                          !.moving = IF pos = state.targetPos THEN FALSE
                                     ELSE state.moving]
    ELSE state

\* The arm targets updateArmPose requests for a label: <<left, right>>.
updateArmPose(e) ==
  IF e = sad \/ e = fear THEN <<90, 90>>
  ELSE IF e = angry THEN <<30, 150>>
  ELSE <<180, 0>>

\* POST /receive, up to the write of the flag (the body always holds a
\* "sentiment" here; it is stored as sent).
handleReceiveRequest(body) ==
  /\ hpc = "idle"
  /\ IF server_busy
       THEN /\ Post("busy", body)
            /\ UNCHANGED <<taskVars, pendingEmotionId>>
       ELSE /\ server_busy' = TRUE
            /\ parsed' = body
            /\ has_emotion_task' = TRUE
            /\ hpc' = "receive_store"
            /\ Post("emotion", body)
            /\ pendingEmotionId' = Len(posts) + 1
            /\ UNCHANGED <<has_head_task, emotion_data, head_angle, task_time>>
  /\ UNCHANGED <<loopVars, emotionVars, servoVars, lastBlinkTime, isBlinking,
                 display,
                 last_wifi_check, pendingHeadId, drained, controllerVars>>

\* POST /receive: the payload is written after the flag.
handleReceiveRequestStore ==
  /\ hpc = "receive_store"
  /\ emotion_data' = parsed
  /\ server_busy' = FALSE
  /\ hpc' = "idle"
  /\ UNCHANGED <<has_emotion_task, has_head_task, head_angle, task_time,
                 parsed>>
  /\ UNCHANGED <<loopVars, emotionVars, servoVars, lastBlinkTime, isBlinking,
                 display,
                 last_wifi_check, posts, pendingEmotionId, pendingHeadId, drained,
                 controllerVars>>

\* POST /head, up to the write of the flag: refused while busy or in
\* emotion mode; "angle" takes precedence over "number".
handleHeadRequest(has_angle, a, has_number, people) ==
  /\ hpc = "idle"
  /\ has_angle \/ has_number
  /\ LET headAngle == IF has_angle THEN a
                      ELSE 90 + (IF people > 1 THEN (people - 1) * 5 ELSE 0)
     IN IF server_busy \/ emotion_mode_active
          THEN /\ Post("blocked", headAngle)
               /\ UNCHANGED <<taskVars, pendingHeadId>>
          ELSE /\ server_busy' = TRUE
               /\ parsed' = headAngle
               /\ has_head_task' = TRUE
               /\ hpc' = "head_store"
               /\ Post("head", headAngle)
               /\ pendingHeadId' = Len(posts) + 1
               /\ UNCHANGED <<has_emotion_task, emotion_data, head_angle,
                              task_time>>
  /\ UNCHANGED <<loopVars, emotionVars, servoVars, lastBlinkTime, isBlinking,
                 display,
                 last_wifi_check, pendingEmotionId, drained, controllerVars>>

handleHeadRequestStore ==
  /\ hpc = "head_store"
  /\ head_angle' = parsed
  /\ server_busy' = FALSE
  /\ hpc' = "idle"
  /\ UNCHANGED <<has_emotion_task, has_head_task, emotion_data, task_time,
                 parsed>>
  /\ UNCHANGED <<loopVars, emotionVars, servoVars, lastBlinkTime, isBlinking,
                 display,
                 last_wifi_check, posts, pendingEmotionId, pendingHeadId, drained,
                 controllerVars>>

\* POST /reset: the handler itself writes the emotion state and redraws
\* the eyes ...
handleResetRequest ==
  /\ hpc = "idle"
  /\ current_emotion' = happy
  /\ emotion_mode_active' = FALSE
  /\ head_tracking_enabled' = TRUE
  /\ display' = Eyes(happy, TRUE)
  /\ hpc' = "reset_pose"
  /\ Post("reset", << >>)
  /\ UNCHANGED <<has_emotion_task, has_head_task, emotion_data, head_angle,
                 task_time,
                 server_busy, parsed>>
  /\ UNCHANGED <<loopVars, servoVars, lastBlinkTime, isBlinking,
                 last_wifi_check,
                 pendingEmotionId, pendingHeadId, drained, controllerVars>>

\* ... and then requests the poses: updateArmPose reads current_emotion.
handleResetRequestPose ==
  /\ hpc = "reset_pose"
  /\ rightArmState' = aug_moveServoSafely(rightArmState, updateArmPose(current_emotion)[2])
  /\ leftArmState' = aug_moveServoSafely(leftArmState, updateArmPose(current_emotion)[1])
  /\ headState' = aug_moveServoSafely(headState, 90)
  /\ hpc' = "idle"
  /\ UNCHANGED <<has_emotion_task, has_head_task, emotion_data, head_angle,
                 task_time,
                 server_busy, parsed>>
  /\ UNCHANGED <<loopVars, current_emotion, emotion_mode_active,
                 head_tracking_enabled,
                 lastBlinkTime, isBlinking, display, last_wifi_check, posts,
                 pendingEmotionId, pendingHeadId, drained, controllerVars>>

\* loop() takes its timestamp and processSimpleTasks its own (no time
\* passes between the two), then tests has_emotion_task.
processSimpleTasks ==
  /\ pc = "aug_loop"
  /\ now' = millis
  /\ pc' = IF has_emotion_task THEN "aug_emo_read" ELSE "aug_head"
  /\ UNCHANGED <<millis, shortTicks, emotionVars, servoVars, lastBlinkTime,
                 isBlinking,
                 display, last_wifi_check, posts, pendingEmotionId, pendingHeadId,
                 drained, controllerVars, taskVars>>

\* current_emotion = currentTask.emotion_data
processEmotionRead ==
  /\ pc = "aug_emo_read"
  /\ current_emotion' = emotion_data
  /\ drained' = Append(drained, [id |-> pendingEmotionId, payload |-> emotion_data])
  /\ pc' = "aug_emo_mode"
  /\ UNCHANGED <<millis, now, shortTicks, emotion_mode_active,
                 head_tracking_enabled,
                 servoVars, lastBlinkTime, isBlinking, display, last_wifi_check, posts,
                 pendingEmotionId, pendingHeadId, controllerVars, taskVars>>

\* emotion_mode_active = true: a statement of its own, the network task may
\* run before the next one.
processEmotionMode ==
  /\ pc = "aug_emo_mode"
  /\ emotion_mode_active' = TRUE
  /\ pc' = "aug_emo_apply"
  /\ UNCHANGED <<millis, now, shortTicks, current_emotion,
                 head_tracking_enabled,
                 servoVars, lastBlinkTime, isBlinking, display, last_wifi_check,
                 historyVars, current_sentiment, emotion_mode_start, inboxVars,
                 resetVars, nextBlinkInterval, blinkStartTime, eyesOpen, leds,
                 localVars, countVars, last_heartbeat, reconnectStart, taskVars>>

\* head_tracking_enabled = false, the task time, the eyes and the poses.
processEmotionApply ==
  /\ pc = "aug_emo_apply"
  /\ head_tracking_enabled' = FALSE
  /\ task_time' = now
  /\ display' = Eyes(current_emotion, TRUE)
  /\ rightArmState' = aug_moveServoSafely(rightArmState, updateArmPose(current_emotion)[2])
  /\ leftArmState' = aug_moveServoSafely(leftArmState, updateArmPose(current_emotion)[1])
  /\ headState' = aug_moveServoSafely(headState, 75)
  /\ pc' = "aug_emo_clear"
  /\ UNCHANGED <<millis, now, shortTicks, current_emotion,
                 emotion_mode_active, lastBlinkTime, isBlinking,
                 last_wifi_check, historyVars, current_sentiment, emotion_mode_start,
                 inboxVars, resetVars, nextBlinkInterval, blinkStartTime, eyesOpen, leds,
                 localVars, countVars, last_heartbeat, reconnectStart, julVars>>
  /\ UNCHANGED <<has_emotion_task, has_head_task, emotion_data, head_angle,
                 server_busy, hpc, parsed>>

\* currentTask.has_emotion_task = false, at the end of the processing.
processEmotionClear ==
  /\ pc = "aug_emo_clear"
  /\ has_emotion_task' = FALSE
  /\ pc' = "aug_head"
  /\ UNCHANGED <<millis, now, shortTicks, emotionVars, servoVars, lastBlinkTime,
                 isBlinking, display, last_wifi_check, historyVars, current_sentiment,
                 emotion_mode_start, inboxVars, resetVars, nextBlinkInterval,
                 blinkStartTime, eyesOpen, leds, localVars, countVars,
                 last_heartbeat, reconnectStart, julVars>>
  /\ UNCHANGED <<has_head_task, emotion_data, head_angle, task_time,
                 server_busy,
                 hpc, parsed>>

\* The head task runs outside emotion mode only and stays queued otherwise.
processHeadTask ==
  /\ pc = "aug_head"
  /\ pc' = "aug_servo"
  /\ IF has_head_task /\ ~emotion_mode_active
       THEN /\ headState' = aug_moveServoSafely(headState, constrain(head_angle, 70, 110))
            /\ has_head_task' = FALSE
            /\ drained' = Append(drained, [id |-> pendingHeadId, payload |-> head_angle])
       ELSE UNCHANGED <<headState, has_head_task, drained>>
  /\ UNCHANGED <<millis, now, shortTicks, emotionVars, leftArmState,
                 rightArmState,
                 lastBlinkTime, isBlinking, display, last_wifi_check, posts,
                 pendingEmotionId, pendingHeadId, controllerVars>>
  /\ UNCHANGED <<has_emotion_task, emotion_data, head_angle, task_time,
                 server_busy,
                 hpc, parsed>>

aug_updateServoPositions ==
  /\ pc = "aug_servo"
  /\ headState' = aug_UpdateAxis(headState, millis)
  /\ leftArmState' = aug_UpdateAxis(leftArmState, millis)
  /\ rightArmState' = aug_UpdateAxis(rightArmState, millis)
  /\ pc' = "aug_timeout"
  /\ UNCHANGED <<millis, now, shortTicks, emotionVars, lastBlinkTime,
                 isBlinking,
                 display, last_wifi_check, posts, pendingEmotionId, pendingHeadId,
                 drained, controllerVars, taskVars>>

\* checkEmotionTimeout reads millis() itself.
checkEmotionTimeout ==
  /\ pc = "aug_timeout"
  /\ pc' = "aug_blink"
  /\ IF emotion_mode_active /\ ULongSub(millis, task_time) > AUG_EMOTION_TIMEOUT
       THEN /\ emotion_mode_active' = FALSE
            /\ head_tracking_enabled' = TRUE
            /\ current_emotion' = happy
            /\ display' = Eyes(happy, TRUE)
            /\ rightArmState' = aug_moveServoSafely(rightArmState, updateArmPose(happy)[2])
            /\ leftArmState' = aug_moveServoSafely(leftArmState, updateArmPose(happy)[1])
            /\ headState' = aug_moveServoSafely(headState, 90)
       ELSE UNCHANGED <<current_emotion, emotion_mode_active,
                        head_tracking_enabled,
                        display, servoVars>>
  /\ UNCHANGED <<millis, now, shortTicks, lastBlinkTime, isBlinking,
                 last_wifi_check,
                 posts, pendingEmotionId, pendingHeadId, drained, controllerVars,
                 taskVars>>

\* The blink of loop(): the two tests run one after the other on the
\* iteration's timestamp.
aug_blink ==
  /\ pc = "aug_blink"
  /\ pc' = "aug_wifi"
  /\ LET starts == ~isBlinking /\ ULongSub(now, lastBlinkTime) > AUG_BLINK_INTERVAL
         blinking == starts \/ isBlinking
         last == IF starts THEN now ELSE lastBlinkTime
         ends == blinking /\ ULongSub(now, last) > AUG_BLINK_DURATION
     IN /\ lastBlinkTime' = last
        /\ isBlinking' = (blinking /\ ~ends)
        /\ display' = IF ends THEN Eyes(current_emotion, TRUE)
                      ELSE IF starts THEN Eyes(current_emotion, FALSE)
                      ELSE display
  /\ UNCHANGED <<millis, now, shortTicks, emotionVars, servoVars,
                 last_wifi_check,
                 posts, pendingEmotionId, pendingHeadId, drained, controllerVars,
                 taskVars>>

\* The WiFi check of loop(): reconnectWiFi waits 1000 ms and then up to 20
\* times 500 ms when the link is down.
aug_wifi(statuses) ==
  /\ pc = "aug_wifi"
  /\ pc' = "aug_delay"
  /\ IF ULongSub(now, last_wifi_check) > AUG_WIFI_CHECK_INTERVAL
       THEN /\ last_wifi_check' = now
            /\ \E status \in statuses :
                 millis' = millis + (IF status = "connected" THEN 0
                                     ELSE IF status = "failed" THEN 1000 + 20 * 500
                                     ELSE 1000 + 500)
       ELSE UNCHANGED <<last_wifi_check, millis>>
  /\ UNCHANGED <<now, shortTicks, emotionVars, servoVars, lastBlinkTime,
                 isBlinking,
                 display, posts, pendingEmotionId, pendingHeadId, drained,
                 controllerVars, taskVars>>

aug_delay ==
  /\ pc = "aug_delay"
  /\ pc' = "aug_loop"
  /\ \/ /\ shortTicks < MaxShortTicks
        /\ millis + LOOP_DELAY <= MaxTime
        /\ millis' = millis + LOOP_DELAY
        /\ shortTicks' = shortTicks + 1
     \/ /\ millis + LongElapse <= MaxTime
        /\ millis' = millis + LongElapse
        /\ UNCHANGED shortTicks
  /\ UNCHANGED <<now, emotionVars, servoVars, lastBlinkTime, isBlinking,
                 display,
                 last_wifi_check, posts, pendingEmotionId, pendingHeadId, drained,
                 controllerVars, taskVars>>

\* The requests of one network-task step of the sketch.
aug_Handlers(sentiments, numbers, angles) ==
  \/ \E body \in sentiments : RequestsLeft(MaxPosts) /\ handleReceiveRequest(body)
  \/ handleReceiveRequestStore
  \/ \E a \in angles :
       RequestsLeft(MaxPosts) /\ handleHeadRequest(TRUE, a, FALSE, NO_VALUE)
  \/ \E n \in numbers :
       RequestsLeft(MaxPosts) /\ handleHeadRequest(FALSE, NO_VALUE, TRUE, n)
  \/ handleHeadRequestStore
  \/ RequestsLeft(MaxPosts) /\ handleResetRequest
  \/ handleResetRequestPose

\* One step of the sketch's loop().
aug_loop(statuses) ==
  \/ processSimpleTasks
  \/ processEmotionRead
  \/ processEmotionMode
  \/ processEmotionApply
  \/ processEmotionClear
  \/ processHeadTask
  \/ aug_updateServoPositions
  \/ checkEmotionTimeout
  \/ aug_blink
  \/ aug_wifi(statuses)
  \/ aug_delay

AugMainLoop == aug_loop({"connected"})

AugNext == aug_Handlers(Sentiments, HeadNumbers, HeadAngles) \/ AugMainLoop

SpecAug == AugInit /\ [][AugNext]_vars

\* One call moveServoSafely(servo, state, targetAngle), state being the
\* ServoState of the head (axis 1), the left arm (2) or the right arm (3)
\* passed by reference: whatever the call writes, it writes there.
moveServoSafelyCall(axis, targetAngle) ==
  /\ headState' = IF axis = 1 THEN moveServoSafely(headState, targetAngle)
                  ELSE headState
  /\ leftArmState' = IF axis = 2 THEN moveServoSafely(leftArmState, targetAngle)
                     ELSE leftArmState
  /\ rightArmState' = IF axis = 3 THEN moveServoSafely(rightArmState, targetAngle)
                      ELSE rightArmState
  /\ UNCHANGED <<loopVars, emotionVars, inboxVars, resetVars, blinkVars,
                 outputVars, localVars, countVars, houseVars, historyVars,
                 taskVars>>

\* The same call in sketch_aug2a.
aug_moveServoSafelyCall(axis, targetAngle) ==
  /\ headState' = IF axis = 1 THEN aug_moveServoSafely(headState, targetAngle)
                  ELSE headState
  /\ leftArmState' = IF axis = 2 THEN aug_moveServoSafely(leftArmState, targetAngle)
                     ELSE leftArmState
  /\ rightArmState' = IF axis = 3 THEN aug_moveServoSafely(rightArmState, targetAngle)
                      ELSE rightArmState
  /\ UNCHANGED <<loopVars, emotionVars, inboxVars, resetVars, blinkVars,
                 outputVars, localVars, countVars, houseVars, historyVars,
                 taskVars>>

\* updateServoPositions called SERVO_MOVE_DELAY ms after the step before.
updateServoPositionsCall ==
  /\ millis + SERVO_MOVE_DELAY <= MoveTime
  /\ millis' = millis + SERVO_MOVE_DELAY
  /\ headState' = UpdateAxis(headState, millis')
  /\ leftArmState' = UpdateAxis(leftArmState, millis')
  /\ rightArmState' = UpdateAxis(rightArmState, millis')
  /\ UNCHANGED <<pc, now, shortTicks, emotionVars, inboxVars, resetVars,
                 blinkVars, outputVars, localVars, countVars, houseVars,
                 historyVars, taskVars>>

\* moveServoSafely on its own: calls on the three axes, in any order, with
\* the angles of MoveAngles, from the state setup() leaves, and the axes
\* stepping in between.
MoveNext ==
  \/ \E axis \in 1..3 : \E a \in MoveAngles : moveServoSafelyCall(axis, a)
  \/ \E axis \in 1..3 : \E a \in MoveAngles : aug_moveServoSafelyCall(axis, a)
  \/ updateServoPositionsCall

SpecMove == Init /\ [][MoveNext]_vars

----------------------------------------------------------------------------
\* sketch_jul22a: one servo that sweeps, and centres on a detected person.
\* Its WebServer is synchronous: handleHeadTracking runs inside
\* server.handleClient(), at the top of loop().  pc is "jul_setup" in the
\* WiFi wait of setup(), "jul_loop" at the top of loop() and "jul_servo"
\* after handleClient().

\* The state of the sketch at position p and clock value t, head data last
\* received at clock value received, everything else as initialised.
JulStart(p, t, received) ==
  /\ millis = t
  /\ pc = p
  /\ now = 0
  /\ current_emotion = <<"n","e","u","t","r","a","l">>
  /\ current_sentiment = <<"n","e","u","t","r","a","l">>
  /\ emotion_mode_active = FALSE
  /\ head_tracking_enabled = TRUE
  /\ emotion_mode_start = 0
  /\ pendingEmotion = FALSE
  /\ pendingEmotionValue = emptyString
  /\ pendingHead = FALSE
  /\ pendingHeadNumber = NO_VALUE
  /\ pendingHeadAngle = NO_VALUE
  /\ pendingReset = FALSE
  /\ resetAcknowledged = FALSE
  /\ resetStartTime = 0
  /\ headState = ServoState(90, 90, 0, 180)
  /\ leftArmState = ServoState(180, 180, 0, 180)
  /\ rightArmState = ServoState(0, 0, 0, 180)
  /\ lastBlinkTime = 0
  /\ nextBlinkInterval = 0
  /\ isBlinking = FALSE
  /\ blinkStartTime = 0
  /\ eyesOpen = TRUE
  /\ leds = COLOR_HAPPY
  /\ display = Eyes(happy, TRUE)
  /\ emotion = emptyString
  /\ number = NO_VALUE
  /\ angle = 90
  /\ lastMoveTime = 0
  /\ currentDirection = 1
  /\ movementSpeed = 5
  /\ last_wifi_check = 0
  /\ last_heartbeat = 0
  /\ reconnectStart = 0
  /\ posts = << >>
  /\ pendingEmotionId = 0
  /\ pendingHeadId = 0
  /\ pendingResetId = 0
  /\ drained = << >>
  /\ shortTicks = 0
  /\ has_emotion_task = FALSE
  /\ has_head_task = FALSE
  /\ emotion_data = emptyString
  /\ head_angle = 90
  /\ task_time = 0
  /\ server_busy = FALSE
  /\ hpc = "idle"
  /\ parsed = NO_VALUE
  /\ person_detected = FALSE
  /\ stable_person_detected = FALSE
  /\ people_count = 0
  /\ sweepingRight = TRUE
  /\ lastHeadDataReceived = received
  /\ lastEmotionDataReceived = 0
  /\ detection_change_time = 0
  /\ lastDebugTime = 0

\* The state at power-on, before setup().
JulPowerOn == JulStart("jul_setup", 0, 0)

\* The state after setup(), the WiFi link up at its first test: delay(1000)
\* has passed and lastHeadDataReceived is the clock value at its end.
JulInit == JulStart("jul_loop", 1000, 1000)

\* State of the other two sketches that sketch_jul22a does not have.
julOtherVars == <<emotion_mode_active, head_tracking_enabled, emotion_mode_start,
                  inboxVars, resetVars, servoVars, blinkVars, outputVars,
                  emotion, number, currentDirection, movementSpeed, houseVars,
                  pendingEmotionId, pendingHeadId, pendingResetId, drained,
                  has_emotion_task, has_head_task, emotion_data, head_angle,
                  task_time, server_busy, hpc, parsed>>

\* setup(): one test of the WiFi wait.  While the link is down the wait
\* goes round after delay(500), without a limit; once it is up the route is
\* registered, the servo attached and written, and after delay(1000)
\* lastHeadDataReceived is set.
jul_setup(statuses) ==
  /\ pc = "jul_setup"
  /\ \E status \in statuses :
       IF status # "connected"
         THEN /\ millis + 500 <= JulSetupTime
              /\ millis' = millis + 500
              /\ UNCHANGED <<pc, lastHeadDataReceived>>
         ELSE /\ millis' = millis + 1000
              /\ lastHeadDataReceived' = millis'
              /\ pc' = "jul_loop"
  /\ UNCHANGED <<now, shortTicks, current_emotion, current_sentiment, angle,
                 lastMoveTime, posts, person_detected, stable_person_detected,
                 people_count, sweepingRight, lastEmotionDataReceived,
                 detection_change_time, lastDebugTime, julOtherVars>>


\* handleHeadTracking, run by handleClient() for a POST /receive.  A body
\* with "number": the count, the time of the data, and the start of the
\* debounce when the detection changes.  Otherwise a body with "emotion"
\* and "sentiment": the two labels and the time of the data.  Any other
\* body is answered 400 and changes nothing.
handleHeadTracking(has_number, n, has_emotion, e, sentiment) ==
  /\ pc = "jul_loop"
  /\ IF has_number
       THEN /\ people_count' = n
            /\ lastHeadDataReceived' = millis
            /\ IF (n > 0) # person_detected
                 THEN /\ detection_change_time' = millis
                      /\ person_detected' = (n > 0)
                 ELSE UNCHANGED <<detection_change_time, person_detected>>
            /\ Post("head", <<n, NO_VALUE>>)
            /\ UNCHANGED <<current_emotion, current_sentiment,
                           lastEmotionDataReceived>>
     ELSE IF has_emotion
       THEN /\ current_emotion' = e
            /\ current_sentiment' = sentiment
            /\ lastEmotionDataReceived' = millis
            /\ Post("emotion", e)
            /\ UNCHANGED <<people_count, lastHeadDataReceived,
                           detection_change_time, person_detected>>
     ELSE /\ Post("rejected", "unknown_format")
          /\ UNCHANGED <<current_emotion, current_sentiment,
                         lastEmotionDataReceived, people_count,
                         lastHeadDataReceived, detection_change_time,
                         person_detected>>
  /\ pc' = "jul_servo"
  /\ UNCHANGED <<millis, now, shortTicks, angle, lastMoveTime,
                 stable_person_detected, sweepingRight, lastDebugTime,
                 julOtherVars>>

\* handleClient() with no request waiting.
handleClientIdle ==
  /\ pc = "jul_loop"
  /\ pc' = "jul_servo"
  /\ UNCHANGED <<millis, now, shortTicks, current_emotion, current_sentiment,
                 angle, lastMoveTime, posts, julVars, julOtherVars>>

\* SweepStep that turns only once the angle would pass 0 or 180.
SweepStepLateTurn(a, right, step) ==
  LET next == a + (IF right THEN step ELSE -step)
  IN IF next > 180 THEN <<180, FALSE>>
     ELSE IF next < 0 THEN <<0, TRUE>>
     ELSE <<next, right>>

\* One step of a sweep: the angle advanced by step in the sweep direction
\* and cut at 0 and 180, where the direction turns; <<angle, sweepingRight>>.
SweepStep(a, right, step) ==
  LET next == a + (IF right THEN step ELSE -step)
  IN IF next >= 180 THEN <<180, FALSE>>
     ELSE IF next <= 0 THEN <<0, TRUE>>
     ELSE <<next, right>>

\* head_data_fresh, and stable_person_detected after the debounce test, at
\* the clock value t.
head_data_fresh(t) == ULongSub(t, lastHeadDataReceived) < DATA_TIMEOUT
StableDetected(t) ==
  IF ULongSub(t, detection_change_time) > DETECTION_DEBOUNCE
    THEN person_detected ELSE stable_person_detected

\* The servo move of loop() at the clock value t: <<angle, sweepingRight,
\* lastMoveTime>>.
ServoControl(t) ==
  LET since == ULongSub(t, lastMoveTime)
      still == <<angle, sweepingRight, lastMoveTime>>
  IN IF ~head_data_fresh(t)
       THEN IF since > 100
              THEN SweepStep(angle, sweepingRight, 2) \o <<t>>
              ELSE still
     ELSE IF ~StableDetected(t)
       THEN IF since > 50
              THEN SweepStep(angle, sweepingRight, 3) \o <<t>>
              ELSE still
     ELSE IF abs(angle - 90) > 5 /\ since > 30
       THEN <<IF angle > 90 THEN angle - 2 ELSE angle + 2, sweepingRight, t>>
     ELSE still

\* loop() after handleClient(): the timestamp, the debounce, the servo
\* control, the debug timer, and delay(10); the iteration ends JulElapse ms
\* after it began, and none ends after the clock value limit.
jul_loop(limit) ==
  /\ pc = "jul_servo"
  /\ now' = millis
  /\ stable_person_detected' = StableDetected(millis)
  /\ angle' = ServoControl(millis)[1]
  /\ sweepingRight' = ServoControl(millis)[2]
  /\ lastMoveTime' = ServoControl(millis)[3]
  /\ lastDebugTime' = IF ULongSub(millis, lastDebugTime) > 3000
                        THEN millis ELSE lastDebugTime
  /\ millis + JulElapse <= limit
  /\ millis' = millis + JulElapse
  /\ pc' = "jul_loop"
  /\ UNCHANGED <<shortTicks, current_emotion, current_sentiment, posts,
                 person_detected, people_count, lastHeadDataReceived,
                 lastEmotionDataReceived, detection_change_time, julOtherVars>>

\* sketch_jul22a from the end of setup() on, with a bounded number of
\* person counts.
JulNext ==
  \/ \E n \in JulNumbers :
       /\ RequestsLeft(JulPosts)
       /\ handleHeadTracking(TRUE, n, FALSE, emptyString, emptyString)
  \/ handleClientIdle
  \/ jul_loop(JulTime)

SpecJul == JulInit /\ [][JulNext]_vars

\* sketch_jul22a from the end of setup() on, with a bounded number of
\* requests of every kind.
JulDataNext ==
  \/ \E b \in JulBodies :
       /\ RequestsLeft(JulPosts)
       /\ handleHeadTracking(b[1], b[2], b[3], b[4], b[5])
  \/ handleClientIdle
  \/ jul_loop(JulDataTime)

SpecJulData == JulInit /\ [][JulDataNext]_vars

\* sketch_jul22a from power-on, the WiFi link up or down at every test of
\* the wait.
JulSetupNext ==
  \/ jul_setup({"connected", "down"})
  \/ handleClientIdle
  \/ jul_loop(JulTime)

SpecJulSetup == JulPowerOn /\ [][JulSetupNext]_vars

----------------------------------------------------------------------------
\* Properties of the servo axes.

AxisInRange(s) ==
  /\ s.minPos <= s.currentPos /\ s.currentPos <= s.maxPos
  /\ s.minPos <= s.targetPos /\ s.targetPos <= s.maxPos

\* C1: whatever requests arrive and however they interleave with the loop,
\* the current position of the head and of both arms stays inside the
\* axis's [minPos, maxPos], and so does the target it moves to.
C1_ServoWithinLimits ==
  /\ AxisInRange(headState)
  /\ AxisInRange(leftArmState)
  /\ AxisInRange(rightArmState)

\* An out-of-range head angle was requested, its target was cut to maxPos
\* and the head is on its way there while an arm has left its end stop.
C1_Witness ==
  /\ headState.targetPos = headState.maxPos
  /\ headState.currentPos > 90
  /\ \E i \in DOMAIN posts : posts[i].kind = "head" /\ posts[i].payload[2] > headState.maxPos

\* Due steps an axis still needs: ceil(|targetPos - currentPos| / SERVO_STEP_SIZE).
StepsLeft(s) ==
  (abs(s.targetPos - s.currentPos) + SERVO_STEP_SIZE - 1) \div SERVO_STEP_SIZE

\* The axis is moving and its move delay has passed.
Due(s) == s.moving /\ ULongSub(millis, s.lastMoveTime) >= SERVO_MOVE_DELAY

\* One updateServoPositions step from axis state s to t.
AxisConverges(s, t) ==
  IF Due(s)
    THEN /\ t.targetPos = s.targetPos
         /\ StepsLeft(t) = max(StepsLeft(s) - 1, 0)
         /\ t.moving = (t.currentPos # t.targetPos)
    ELSE t = s

\* The moving flag of an axis falls in an updateServoPositions step only,
\* and only with the axis at its target.
MovingFalls(s, t) ==
  (s.moving /\ ~t.moving) => (pc = "servo" /\ t.currentPos = t.targetPos)

\* C2: every due updateServoPositions step takes one off the number of steps
\* an axis is away from its unchanged target, so the axis arrives after
\* ceil(|targetPos - currentPos| / SERVO_STEP_SIZE) due steps, and moving is
\* false after a due step exactly when currentPos equals targetPos; no other
\* step clears moving.
C2_ServoConverges ==
  [][/\ (pc = "servo" /\ pc' = "blink") =>
          /\ AxisConverges(headState, headState')
          /\ AxisConverges(leftArmState, leftArmState')
          /\ AxisConverges(rightArmState, rightArmState')
     /\ MovingFalls(headState, headState')
     /\ MovingFalls(leftArmState, leftArmState')
     /\ MovingFalls(rightArmState, rightArmState')]_vars

\* The head arrived at a requested angle two steps away and stopped.
C2_Witness ==
  /\ headState.currentPos = 94
  /\ headState.targetPos = 94
  /\ ~headState.moving
  /\ headState.lastMoveTime > SetupDoneMillis

----------------------------------------------------------------------------
\* Properties of the mailboxes.

HasPost(kind) == \E i \in DOMAIN posts : posts[i].kind = kind

\* The latest post of a kind.
LastOf(kind) ==
  CHOOSE i \in DOMAIN posts :
    /\ posts[i].kind = kind
    /\ \A j \in DOMAIN posts : posts[j].kind = kind => j <= i

\* C3: when the loop drains the emotion mailbox it reads the payload of the
\* latest POST /receive, and when it drains the head mailbox the payload of
\* the latest accepted head post: of two posts of a kind that arrive before
\* the drain, the second one is acted on and the first never.
C3_LastWriteWins ==
  [][/\ (pc = "emo_drain" /\ pc' = "head_test") =>
          /\ HasPost("emotion")
          /\ emotion' = posts[LastOf("emotion")].payload
          /\ current_emotion' = posts[LastOf("emotion")].payload
          /\ drained'[Len(drained')].id = LastOf("emotion")
     /\ (pc = "head_drain" /\ pc' = "servo") =>
          /\ HasPost("head")
          /\ <<number', angle'>> = posts[LastOf("head")].payload
          /\ drained'[Len(drained')].id = LastOf("head")]_vars

\* Two different sentiments were posted before one drain, which acted on
\* the second.
C3_Witness ==
  /\ Len(posts) = 2
  /\ posts[1].kind = "emotion"
  /\ posts[2].kind = "emotion"
  /\ posts[1].payload # posts[2].payload
  /\ Len(drained) = 1
  /\ drained[1].id = 2
  /\ current_emotion = posts[2].payload

\* The flag and the latest post a mailbox holds.
Pending(kind) ==
  IF kind = "emotion" THEN pendingEmotion
  ELSE IF kind = "head" THEN pendingHead
  ELSE pendingReset
PendingId(kind) ==
  IF kind = "emotion" THEN pendingEmotionId
  ELSE IF kind = "head" THEN pendingHeadId
  ELSE pendingResetId

Drained(i) == \E k \in DOMAIN drained : drained[k].id = i

\* C4: no post is copied out twice; what is copied out is the payload that
\* was posted; and the latest post of a kind is either still held by its
\* mailbox with the flag set, or was copied out, never both and never
\* neither (an earlier post is copied out or overwritten by a later one).
C4_DrainedExactlyOnce ==
  /\ \A k, l \in DOMAIN drained : drained[k].id = drained[l].id => k = l
  /\ \A k \in DOMAIN drained :
        /\ drained[k].id \in DOMAIN posts
        /\ drained[k].payload = posts[drained[k].id].payload
  /\ \A kind \in {"emotion", "head", "reset"} :
        HasPost(kind) =>
          (Drained(LastOf(kind)) # (Pending(kind) /\ PendingId(kind) = LastOf(kind)))
  /\ pendingEmotion => pendingEmotionValue = posts[pendingEmotionId].payload
  /\ pendingHead => <<pendingHeadNumber, pendingHeadAngle>> = posts[pendingHeadId].payload

\* Of two head posts the second was copied out, once, and the mailbox is
\* empty; the first was overwritten.
C4_Witness ==
  /\ Len(posts) = 2
  /\ posts[1].kind = "head"
  /\ posts[2].kind = "head"
  /\ posts[1].payload # posts[2].payload
  /\ ~pendingHead
  /\ Len(drained) = 1
  /\ drained[1].id = 2

----------------------------------------------------------------------------
\* Properties of the hand-off in sketch_aug2a.

\* C5: in sketch_aug2a what processSimpleTasks processes for an emotion
\* post is the sentiment of that post, never an older emotion_data, and the
\* latest emotion post has been processed or still has has_emotion_task set,
\* also when it arrived while the previous emotion was being processed.
C5_AugEmotionProcessed ==
  /\ \A k \in DOMAIN drained :
        posts[drained[k].id].kind = "emotion" =>
          drained[k].payload = posts[drained[k].id].payload
  /\ HasPost("emotion") => (Drained(LastOf("emotion")) \/ has_emotion_task)

\* C6: a step of a web handler (a step that is not one of the loop) leaves
\* the emotion state, the servo axes and the blink state as they are.
C6_OnlyLoopWritesState ==
  [][pc' = pc => UNCHANGED <<emotionVars, servoVars, blinkVars>>]_vars

----------------------------------------------------------------------------
\* Properties of emotion mode.

\* C7: in emotion mode a head post is still taken into the mailbox, and
\* the loop's drain of the head mailbox in a state with emotion_mode_active
\* empties the mailbox and leaves the head axis as it is.
C7_HeadIgnoredInEmotionMode ==
  [][/\ (emotion_mode_active /\ Len(posts') > Len(posts)
           /\ posts'[Len(posts')].kind = "head") =>
          /\ pendingHead'
          /\ <<pendingHeadNumber', pendingHeadAngle'>> = posts'[Len(posts')].payload
     /\ (emotion_mode_active /\ pc = "head_drain" /\ pc' = "servo") =>
          /\ ~pendingHead'
          /\ headState' = headState]_vars

\* An emotion and then the head angle 200 were copied out, the head
\* command in emotion mode; the head target is the one of the emotion pose.
C7_Witness ==
  /\ pc = "servo"
  /\ emotion_mode_active
  /\ Len(drained) = 2
  /\ posts[drained[1].id].kind = "emotion"
  /\ posts[drained[2].id].kind = "head"
  /\ drained[2].payload[2] = 200
  /\ headState.targetPos = EmotionPose(current_emotion)[3]

\* The loop iteration that is ending copied out the sentiment "angry".
DrainedAngryThisTick ==
  /\ pc = "delay"
  /\ emotion = angry
  /\ emotion_mode_start >= SetupDoneMillis
  /\ emotion_mode_start >= now

\* C8: at the end of the loop iteration that drains POST /receive "ANGRY"
\* the label is "angry", emotion mode is active and the head target is the
\* angle of the angry pose.
C8_AngryApplied ==
  DrainedAngryThisTick =>
    /\ current_emotion = angry
    /\ emotion_mode_active
    /\ headState.targetPos = EmotionPose(angry)[3]

\* C9: the timeout ends emotion mode only when more than
\* EMOTION_MODE_DURATION ms have passed since emotion_mode_start, and never
\* in the loop iteration that started the mode.
C9_TimeoutOnlyAfterDuration ==
  [][(pc = "timeout" /\ emotion_mode_active /\ ~emotion_mode_active') =>
       /\ millis - emotion_mode_start > EMOTION_MODE_DURATION
       /\ emotion_mode_start < now]_vars

\* The last clock value from which the loop can still run into an iteration
\* that is held up, after a reset acknowledgment and the iterations that end
\* after the bare delay.
EmotionHorizon ==
  MaxTime - LongElapse - flashLEDsTime(3, 300) - MaxShortTicks * LOOP_DELAY

NeutralRequested ==
  /\ abs(headState.targetPos - NeutralPose[3]) <= SERVO_DEADBAND
  /\ abs(leftArmState.targetPos - NeutralPose[1]) <= SERVO_DEADBAND
  /\ abs(rightArmState.targetPos - NeutralPose[2]) <= SERVO_DEADBAND

\* C10: with the loop running, once emotion mode is active and no command
\* is posted or waiting any more, a state follows in which emotion mode is
\* off, head tracking is on, the label is the default and the targets of
\* the axes are the neutral pose (up to the deadband of moveServoSafely).
C10_EmotionModeEnds ==
  (emotion_mode_active /\ Len(posts) = MaxPosts /\ ~pendingEmotion
     /\ millis <= EmotionHorizon)
    ~> (~emotion_mode_active /\ head_tracking_enabled /\ current_emotion = happy
          /\ NeutralRequested)

\* The timeout has just ended an emotion mode that lasted its duration,
\* with no reset posted.
C10_Witness ==
  /\ pc = "wifi"
  /\ ~emotion_mode_active
  /\ head_tracking_enabled
  /\ current_emotion = happy
  /\ NeutralRequested
  /\ emotion # emptyString
  /\ now > emotion_mode_start + EMOTION_MODE_DURATION
  /\ Len(posts) = MaxPosts
  /\ ~HasPost("reset")

----------------------------------------------------------------------------
\* Repeated emotion commands.

\* Entries k and l of drained are two emotion commands posted one right
\* after the other, with the same label, each copied out by the loop.
InARow(k, l) ==
  /\ k < l
  /\ posts[drained[k].id].kind = "emotion"
  /\ posts[drained[l].id].kind = "emotion"
  /\ drained[l].id = drained[k].id + 1
  /\ drained[l].payload = drained[k].payload

\* The targets (left arm, right arm, head) and the colour an emotion drain
\* left are those of its label, each target to within the deadband.
PoseOfLabel(d) ==
  /\ \A i \in 1..3 : abs(d.result[i] - EmotionPose(d.payload)[i]) <= SERVO_DEADBAND
  /\ d.result[4] = EmotionColor(d.payload)

----------------------------------------------------------------------------
\* Blocking inside the tick.

\* C12: no step of the main tick waits: draining the reset and the emotion
\* mailbox, the WiFi health check and the heartbeat take no time, so that
\* time passes only in the delay that closes the iteration.
C12_TickNeverWaits ==
  [][(pc \in {"reset_ack", "emo_drain", "wifi", "heartbeat"})
        => UNCHANGED millis]_vars

----------------------------------------------------------------------------
\* The scanning sweep.

\* The loop copies out a count of 0 and moves the head for it.
SweepMove ==
  /\ pc = "head_drain"
  /\ pendingHeadNumber = 0
  /\ pendingHeadAngle = NO_VALUE
  /\ ~emotion_mode_active /\ head_tracking_enabled
  /\ lastMoveTime' # lastMoveTime

----------------------------------------------------------------------------
\* POST /head_position.

\* C14: outside emotion mode POST /head_position queues the angle that lies
\* as far into [minPos, maxPos] as x lies into [0, frame_width], rounded
\* down: minPos for x = 0, maxPos for x = frame_width, the middle of the
\* range for x = frame_width / 2.
C14_PositionLinearMap ==
  [][\A xw \in HeadPositionsAcross :
       (~emotion_mode_active /\ head_tracking_enabled
          /\ onHeadPositionHandler(xw[1], xw[2])) =>
         LET x == xw[1]
             w == xw[2]
             lo == headState.minPos
             hi == headState.maxPos
             q == pendingHeadAngle'
         IN /\ pendingHead'
            /\ pendingHeadNumber' = NO_VALUE
            /\ (q - lo) * w <= x * (hi - lo)
            /\ x * (hi - lo) < (q - lo + 1) * w
            /\ x = 0 => q = lo
            /\ x = w => q = hi
            /\ 2 * x = w => 2 * q = lo + hi]_vars

\* The positions at the two edges of the frame were posted: 45 and then 135
\* degrees were queued.
C14_Witness ==
  /\ Len(posts) = 2
  /\ posts[1] = [kind |-> "head", payload |-> <<NO_VALUE, 45>>]
  /\ posts[2] = [kind |-> "head", payload |-> <<NO_VALUE, 135>>]
  /\ pendingHead
  /\ pendingHeadAngle = 135

\* C15: POST /head_position while emotion mode is active is answered
\* "ignored_emotion_mode" and leaves pendingHead, pendingHeadAngle and
\* pendingHeadNumber as they are.
C15_PositionIgnoredInEmotionMode ==
  [][\A xw \in HeadPositionsAcross :
       (emotion_mode_active /\ onHeadPositionHandler(xw[1], xw[2])) =>
         /\ posts'[Len(posts')].kind = "ignored"
         /\ UNCHANGED <<pendingHead, pendingHeadAngle, pendingHeadNumber>>]_vars

\* A position was posted in emotion mode and ignored; the head mailbox is
\* empty.
C15_Witness ==
  /\ emotion_mode_active
  /\ Len(posts) = 2
  /\ posts[1].kind = "emotion"
  /\ posts[2].kind = "ignored"
  /\ ~pendingHead
  /\ pendingHeadAngle = NO_VALUE

----------------------------------------------------------------------------
\* POST /head and the requests answered 400.

\* C16: when the body of POST /head holds both "angle" and "number", the
\* angle is what the handler queues and echoes: the mailbox gets the angle,
\* the number stays at the sentinel.
C16_AngleTakesPrecedence ==
  [][\A b \in HeadBodies :
       (b[1] /\ b[3] /\ onHeadHandler(b[1], b[2], b[3], b[4])) =>
         /\ pendingHead'
         /\ pendingHeadAngle' = b[4]
         /\ pendingHeadNumber' = NO_VALUE
         /\ posts'[Len(posts')].payload = <<NO_VALUE, b[4]>>]_vars

\* The step is a request that was answered 400.
Rejected ==
  /\ Len(posts') = Len(posts) + 1
  /\ posts'[Len(posts')].kind = "rejected"

\* C17: a request answered 400 (invalid JSON, or the field of its route
\* missing) changes no mailbox flag or payload, no emotion state, no servo
\* state and nothing of a reset in progress.
C17_RejectedHasNoEffect ==
  [][Rejected => UNCHANGED <<inboxVars, emotionVars, servoVars, resetVars>>]_vars

\* A request was answered 400 while the head mailbox held the angle -20:
\* the mailbox still holds it.
C17_Witness ==
  /\ Len(posts) = 2
  /\ posts[1] = [kind |-> "head", payload |-> <<NO_VALUE, -20>>]
  /\ posts[2].kind = "rejected"
  /\ pendingHead
  /\ pendingHeadAngle = -20

\* C18: every angle posted to /head (a post that queued no number) and
\* copied out outside emotion mode, with tracking enabled, makes the loop
\* request a head move to that angle clamped to [minPos, maxPos], negative
\* angles and -1 too.
C18_AngleNeverDropped ==
  [][(/\ pc = "head_drain" /\ pc' = "servo"
      /\ ~emotion_mode_active /\ head_tracking_enabled
      /\ posts[pendingHeadId].payload[1] = NO_VALUE) =>
       headState' = moveServoSafely(headState,
                      constrain(posts[pendingHeadId].payload[2],
                                headState.minPos, headState.maxPos))]_vars

----------------------------------------------------------------------------
\* Labels outside the tables.

\* The loop copies out an emotion label that no table holds.
UnknownDrain ==
  /\ pc = "emo_drain" /\ pc' = "head_test"
  /\ pendingEmotionValue \notin KnownLabels

\* POST /receive with a label that no table holds is accepted and queued.
UnknownAccepted ==
  \A body \in PositionSentiments :
    onReceiveHandler(body) =>
      /\ toLowerCase(body) \notin KnownLabels
      /\ pendingEmotion'
      /\ pendingEmotionValue' = toLowerCase(body)
      /\ posts'[Len(posts')].kind = "emotion"

\* C19 as stated: a label outside the tables is accepted, and draining it
\* activates emotion mode with the default pose, head target 90, left arm
\* 180, right arm 0, and the default LED colour.
C19_UnknownLabelDefaultPose ==
  [][/\ UnknownAccepted
     /\ UnknownDrain =>
          /\ emotion_mode_active' /\ ~head_tracking_enabled'
          /\ current_emotion' = pendingEmotionValue
          /\ headState'.targetPos = 90
          /\ leftArmState'.targetPos = 180
          /\ rightArmState'.targetPos = 0
          /\ leds' = COLOR_HAPPY]_vars

\* C19: a label outside the tables is accepted, and draining it activates
\* emotion mode with the default LED colour and with every target within
\* SERVO_DEADBAND of the default pose (head 90, left arm 180, right arm 0):
\* a target that is already that close is kept.
C19_UnknownLabelDefaultWithinDeadband ==
  [][/\ UnknownAccepted
     /\ UnknownDrain =>
          /\ emotion_mode_active' /\ ~head_tracking_enabled'
          /\ current_emotion' = pendingEmotionValue
          /\ abs(headState'.targetPos - 90) <= SERVO_DEADBAND
          /\ abs(leftArmState'.targetPos - 180) <= SERVO_DEADBAND
          /\ abs(rightArmState'.targetPos - 0) <= SERVO_DEADBAND
          /\ abs(headState.targetPos - 90) > SERVO_DEADBAND =>
                headState'.targetPos = 90
          /\ leds' = COLOR_HAPPY]_vars

\* A label outside the tables was drained while the head target was 91,
\* left by a person position: emotion mode is active and the target is
\* still 91.
C19_Witness ==
  /\ emotion_mode_active
  /\ current_emotion \notin KnownLabels
  /\ headState.targetPos = 91
  /\ leftArmState.targetPos = 180
  /\ rightArmState.targetPos = 0
  /\ leds = COLOR_HAPPY

----------------------------------------------------------------------------
\* The deferred reset.

\* The last clock value from which an acknowledged reset still meets an
\* iteration that starts RESET_DELAY later: the effects of the emotions
\* still to come and the iterations that end after the bare delay go first.
ResetHorizon ==
  MaxTime - LongElapse - MaxShortTicks * LOOP_DELAY
    - MaxPosts * flashLEDsTime(3, 200)

\* C20: only the drain of the reset mailbox acknowledges a reset, recording
\* resetStartTime; resetAcknowledged then stays true, and resetStartTime as
\* recorded, until the reset is executed; the reset is executed no earlier
\* than RESET_DELAY ms after resetStartTime, and until then the reset step
\* leaves emotion state and servo targets alone; executing it clears
\* resetAcknowledged, so that it happens once for an acknowledgment; and an
\* acknowledged reset is executed in the end.
C20_ResetAfterDelayOnce ==
  /\ [][/\ (~resetAcknowledged /\ resetAcknowledged') =>
             (pc = "reset_ack" /\ resetStartTime' = millis)
        /\ (resetAcknowledged /\ resetAcknowledged') => UNCHANGED resetStartTime
        /\ (resetAcknowledged /\ ~resetAcknowledged') =>
             /\ pc = "reset_exec"
             /\ millis - resetStartTime >= RESET_DELAY
             /\ current_emotion' = happy
             /\ ~emotion_mode_active' /\ head_tracking_enabled'
             /\ headState' = moveServoSafely(headState, 90)
             /\ leftArmState' = moveServoSafely(leftArmState, 180)
             /\ rightArmState' = moveServoSafely(rightArmState, 0)
        /\ (pc = "reset_exec" /\ resetAcknowledged'
              /\ millis - resetStartTime < RESET_DELAY) =>
             UNCHANGED <<emotionVars, servoVars>>
        /\ (pc = "reset_exec" /\ pc' = "emo_test" /\ resetAcknowledged
              /\ millis - resetStartTime >= RESET_DELAY) =>
             ~resetAcknowledged']_vars
  /\ (resetAcknowledged /\ millis <= ResetHorizon) ~> ~resetAcknowledged

\* The reset has just been executed, RESET_DELAY ms or more after its
\* acknowledgment, while emotion mode for "angry" had been active.
C20_Witness ==
  /\ pc = "emo_test"
  /\ ~resetAcknowledged
  /\ resetStartTime > 0
  /\ millis - resetStartTime >= RESET_DELAY
  /\ lastBlinkTime = millis
  /\ current_emotion = happy
  /\ ~emotion_mode_active
  /\ \E k \in DOMAIN drained : drained[k].payload = angry
  /\ headState.targetPos = 90

----------------------------------------------------------------------------
\* What a reset leaves.

\* The step of the main loop that executes the reset.
ResetExecuted == pc = "reset_exec" /\ resetAcknowledged /\ ~resetAcknowledged'

\* C21 as stated: whenever the reset is executed, from any state, the label
\* and the sentiment are the default, emotion mode is off, head tracking is
\* on, and the targets are head 90, left arm 180, right arm 0.
C21_ResetNeutralTargets ==
  [][ResetExecuted =>
       /\ current_emotion' = happy
       /\ current_sentiment' = happy
       /\ ~emotion_mode_active'
       /\ head_tracking_enabled'
       /\ headState'.targetPos = 90
       /\ leftArmState'.targetPos = 180
       /\ rightArmState'.targetPos = 0]_vars

\* C21: whenever the reset is executed, from any state, the label and the
\* sentiment are the default, emotion mode is off, head tracking is on, and
\* every target is within SERVO_DEADBAND of the neutral angle (head 90,
\* left arm 180, right arm 0): the neutral angle itself where the target
\* before was farther from it, and the target before otherwise.
C21_ResetNeutralWithinDeadband ==
  [][ResetExecuted =>
       /\ current_emotion' = happy
       /\ current_sentiment' = happy
       /\ ~emotion_mode_active'
       /\ head_tracking_enabled'
       /\ \A ax \in { <<headState, headState', 90>>,
                      <<leftArmState, leftArmState', 180>>,
                      <<rightArmState, rightArmState', 0>> } :
            /\ abs(ax[2].targetPos - ax[3]) <= SERVO_DEADBAND
            /\ abs(ax[1].targetPos - ax[3]) > SERVO_DEADBAND
                 => ax[2].targetPos = ax[3]
            /\ abs(ax[1].targetPos - ax[3]) <= SERVO_DEADBAND
                 => ax[2].targetPos = ax[1].targetPos]_vars

\* The reset has just been executed while the head target was 92, after
\* the head angles 100 and 92: the target stays 92.
C21_Witness ==
  /\ pc = "emo_test"
  /\ ~resetAcknowledged
  /\ resetStartTime > 0
  /\ millis - resetStartTime >= RESET_DELAY
  /\ lastBlinkTime = millis
  /\ current_sentiment = happy
  /\ ~emotion_mode_active
  /\ headState.targetPos = 92

----------------------------------------------------------------------------
\* Blinking.

\* C22: a blink that has started ends no earlier than BLINK_DURATION ms
\* after blinkStartTime, with the eyes open and nextBlinkInterval drawn
\* again from 2000..5000; while it is in progress the eyes stay closed and
\* no new blink starts (blinkStartTime stays as recorded).
C22_BlinkCompletes ==
  [][/\ (isBlinking /\ ~isBlinking') =>
          /\ eyesOpen'
          /\ ULongSub(millis, blinkStartTime) >= BLINK_DURATION
          /\ nextBlinkInterval' \in 2000..5000
     /\ (isBlinking /\ isBlinking') =>
          /\ ~eyesOpen'
          /\ UNCHANGED blinkStartTime
     /\ (~isBlinking /\ isBlinking') =>
          /\ ~eyesOpen'
          /\ blinkStartTime' = millis]_vars

\* C23: at the end of every iteration of loop() the eyes on the displays
\* are closed exactly when a blink is in progress, and they show the
\* current emotion, whatever command was processed during the blink.
C23_EyesClosedIffBlinking ==
  pc = "delay" =>
    /\ display.open = ~isBlinking
    /\ display.emotion = current_emotion

----------------------------------------------------------------------------
\* The mailboxes within an iteration of loop().

\* C24: a mailbox that is pending when processPendingRequests tests it (one
\* that was pending at the start of the iteration still is, as the handlers
\* only set the flags) is drained in that iteration: the test goes on to
\* the drain, and the drain clears the flag and records the command, for
\* the reset, emotion and head mailboxes alike.
C24_PendingDrainedInTick ==
  [][/\ (pc = "loop" /\ pc' # pc /\ pendingReset) => pc' = "reset_ack"
     /\ (pc = "reset_ack" /\ pc' # pc) =>
          ~pendingReset' /\ Len(drained') = Len(drained) + 1
     /\ (pc = "emo_test" /\ pc' # pc /\ pendingEmotion) => pc' = "emo_drain"
     /\ (pc = "emo_drain" /\ pc' # pc) =>
          ~pendingEmotion' /\ Len(drained') = Len(drained) + 1
     /\ (pc = "head_test" /\ pc' # pc /\ pendingHead) => pc' = "head_drain"
     /\ (pc = "head_drain" /\ pc' # pc) =>
          ~pendingHead' /\ Len(drained') = Len(drained) + 1]_vars

\* The step of the iteration a position of the loop belongs to: 1 draining
\* the mailboxes (the tasks, in sketch_aug2a), 2 the servo axes, 3 the
\* blink, 4 the emotion timeout, 5 the housekeeping checks, 6 the delay
\* that ends the iteration.
StepOf(p) ==
  CASE p \in {"loop", "reset_ack", "reset_exec", "emo_test", "emo_drain",
              "head_test", "head_drain", "aug_loop", "aug_emo_read",
              "aug_emo_mode", "aug_emo_apply", "aug_emo_clear", "aug_head"} -> 1
    [] p \in {"servo", "aug_servo"} -> 2
    [] p \in {"blink", "aug_blink"} -> 3
    [] p \in {"timeout", "aug_timeout"} -> 4
    [] p \in {"wifi", "wifi_wait", "heartbeat", "aug_wifi"} -> 5
    [] p \in {"delay", "aug_delay"} -> 6

\* C25: within an iteration the steps run in the order mailboxes, servo
\* axes, blink, emotion timeout, housekeeping: the loop never goes from a
\* step to an earlier one except from the closing delay to the start of
\* the next iteration, and it skips none; so the servo step comes after
\* every drain of its iteration.
C25_TickOrder ==
  [][pc' # pc =>
       \/ StepOf(pc') = StepOf(pc)
       \/ StepOf(pc') = StepOf(pc) + 1
       \/ StepOf(pc) = 6 /\ StepOf(pc') = 1]_vars

----------------------------------------------------------------------------
\* Person-count control.

\* The step of the main loop that drains a person count n while head
\* tracking is in control.
CountDrain(n) ==
  /\ pc = "head_drain" /\ pc' = "servo"
  /\ pendingHeadNumber = n /\ pendingHeadAngle = NO_VALUE
  /\ ~emotion_mode_active /\ head_tracking_enabled

\* C26: person-count control moves the head at most once per
\* HEAD_MOVE_INTERVAL ms: a count drained HEAD_MOVE_INTERVAL ms or less
\* after the count-driven move before changes neither the head target nor
\* the sweep direction (nor the time of the last move), and a count-driven
\* move comes more than HEAD_MOVE_INTERVAL ms after the one before.
C26_CountMoveInterval ==
  [][/\ \A n \in CountNumbers :
          (CountDrain(n) /\ millis - lastMoveTime <= HEAD_MOVE_INTERVAL) =>
            UNCHANGED <<headState, currentDirection, lastMoveTime>>
     /\ lastMoveTime' # lastMoveTime =>
          /\ \E n \in CountNumbers : CountDrain(n)
          /\ lastMoveTime' = millis
          /\ millis - lastMoveTime > HEAD_MOVE_INTERVAL]_vars

\* A count of 1 has just been drained exactly HEAD_MOVE_INTERVAL ms after
\* a count-driven move, and has moved nothing: the head target is still
\* that of the move before, which the head has not reached yet.
C26_Witness ==
  /\ pc = "servo"
  /\ Len(drained) = 2
  /\ drained[2].payload = <<1, NO_VALUE>>
  /\ lastMoveTime > 0
  /\ millis - lastMoveTime = HEAD_MOVE_INTERVAL
  /\ headState.targetPos # 90
  /\ headState.moving

\* C27: whenever a count of 0 moves the head, the angle asked for is the
\* current head angle advanced by the scanning step of 5 degrees in the
\* sweep direction, clamped to the head's range, whatever counts came
\* before.
C27_ScanStepFixed ==
  [][(CountDrain(0) /\ millis - lastMoveTime > HEAD_MOVE_INTERVAL) =>
       headState' = moveServoSafely(headState,
                      constrain(headState.currentPos + currentDirection * 5,
                                headState.minPos, headState.maxPos))]_vars

\* C28: whenever a count of 1 or more moves the head and the angle computed
\* for it, the current angle advanced by 8 degrees in the sweep direction,
\* reaches or passes maxPos or minPos, the angle asked for is that bound
\* and the direction afterwards points back into the range (-1 at maxPos,
\* 1 at minPos), whatever the random reversal.
C28_TrackClampedAtBounds ==
  [][\A n \in TrackNumbers :
       (CountDrain(n) /\ millis - lastMoveTime > HEAD_MOVE_INTERVAL) =>
         LET newAngle == headState.currentPos + currentDirection * 8
         IN /\ newAngle >= headState.maxPos =>
                 /\ headState' = moveServoSafely(headState, headState.maxPos)
                 /\ currentDirection' = -1
            /\ newAngle <= headState.minPos =>
                 /\ headState' = moveServoSafely(headState, headState.minPos)
                 /\ currentDirection' = 1]_vars

\* A count of 1 has just moved the head target to maxPos from an angle
\* within 8 degrees of it, and the direction points back.
C28_Witness ==
  /\ pc = "servo"
  /\ lastMoveTime = millis
  /\ movementSpeed = 8
  /\ headState.currentPos + 8 >= headState.maxPos
  /\ headState.currentPos < headState.maxPos
  /\ headState.targetPos = headState.maxPos
  /\ currentDirection = -1

----------------------------------------------------------------------------
\* moveServoSafely.

\* What a call with the angle a and the deadband d makes of the axis state
\* s, t being the state after: the angle is cut to [minPos, maxPos]; if it
\* is more than d from the target, it becomes the target and the axis is
\* marked moving, nothing else of the axis changing; otherwise the axis
\* stays as it is.
MoveContract(s, t, a, d) ==
  LET safe == IF a < s.minPos THEN s.minPos
              ELSE IF a > s.maxPos THEN s.maxPos ELSE a
      diff == IF s.targetPos >= safe THEN s.targetPos - safe
              ELSE safe - s.targetPos
  IN IF diff > d
       THEN /\ t.targetPos = safe
            /\ t.moving
            /\ t.currentPos = s.currentPos
            /\ t.minPos = s.minPos /\ t.maxPos = s.maxPos
            /\ t.lastMoveTime = s.lastMoveTime
       ELSE t = s

\* C29: moveServoSafely cuts the requested angle to the axis's [minPos,
\* maxPos]; if the cut angle differs from targetPos by more than the
\* deadband (2; 3 in sketch_aug2a) it sets targetPos to it and moving to
\* true, and otherwise it leaves targetPos, moving and currentPos as they
\* are; it never changes another axis.  (A call that changes no axis at
\* all changes nothing: only the calls that change an axis need a look.)
C29_MoveServoSafelyFrame ==
  [][millis' = millis =>
       LET s == <<headState, leftArmState, rightArmState>>
           t == <<headState', leftArmState', rightArmState'>>
       IN \A axis \in {i \in 1..3 : t[i] # s[i]} : \A a \in MoveAngles :
            /\ moveServoSafelyCall(axis, a) =>
                 /\ MoveContract(s[axis], t[axis], a, 2)
                 /\ \A other \in 1..3 \ {axis} : t[other] = s[other]
            /\ aug_moveServoSafelyCall(axis, a) =>
                 /\ MoveContract(s[axis], t[axis], a, 3)
                 /\ \A other \in 1..3 \ {axis} : t[other] = s[other]]_vars

\* Calls have cut the head's target to maxPos and the left arm's to its
\* minPos, both axes on their way, while the right arm, asked within the
\* deadband of its target, still rests.
C29_Witness ==
  /\ headState.targetPos = headState.maxPos
  /\ headState.moving /\ headState.currentPos = 92
  /\ leftArmState.targetPos = leftArmState.minPos
  /\ leftArmState.moving /\ leftArmState.currentPos = 178
  /\ rightArmState.targetPos = 0
  /\ ~rightArmState.moving

----------------------------------------------------------------------------
\* The steps of an axis.

\* One step of the controller seen from one axis, from state s to state t:
\* the position changes in updateServoPositions only, by SERVO_STEP_SIZE at
\* most, towards the target and not past it, no sooner than
\* SERVO_MOVE_DELAY ms after the step before, whose time lastMoveTime
\* holds; and updateServoPositions leaves an axis as it is when the axis is
\* not moving or not yet due.
AxisStepBounded(s, t) ==
  /\ t.currentPos # s.currentPos =>
       /\ pc = "servo"
       /\ abs(t.currentPos - s.currentPos) <= SERVO_STEP_SIZE
       /\ \/ s.currentPos < t.currentPos /\ t.currentPos <= s.targetPos
          \/ s.currentPos > t.currentPos /\ t.currentPos >= s.targetPos
       /\ millis - s.lastMoveTime >= SERVO_MOVE_DELAY
       /\ t.lastMoveTime = millis
  /\ (pc = "servo" /\ pc' = "blink"
        /\ (~s.moving \/ millis - s.lastMoveTime < SERVO_MOVE_DELAY)) =>
       t = s

\* C30: for each axis, currentPos changes by SERVO_STEP_SIZE at most in a
\* step and never passes targetPos; two changes of an axis are
\* SERVO_MOVE_DELAY ms or more apart; an axis that is not moving or not yet
\* due is left unchanged.
C30_AxisStepBounded ==
  [][/\ AxisStepBounded(headState, headState')
     /\ AxisStepBounded(leftArmState, leftArmState')
     /\ AxisStepBounded(rightArmState, rightArmState')]_vars

\* updateServoPositions has just left the head where it was: the head is
\* on its way to its target and took its first step 20 ms before, less
\* than SERVO_MOVE_DELAY.
C30_Witness ==
  /\ pc = "blink"
  /\ headState.moving
  /\ headState.currentPos = 90 + SERVO_STEP_SIZE
  /\ headState.targetPos > headState.currentPos
  /\ millis - headState.lastMoveTime = LOOP_DELAY
  /\ LOOP_DELAY < SERVO_MOVE_DELAY

----------------------------------------------------------------------------
\* WiFi reconnection.

\* C31: a reconnection attempt of the health check ends: the wait is over
\* 10 seconds after reconnectStart at the latest, whether or not the link
\* comes back, and the loop goes on with its iteration; and the health
\* check starts at most one attempt per WIFI_CHECK_INTERVAL: an attempt
\* starts more than WIFI_CHECK_INTERVAL ms after the attempt before.
C31_ReconnectBoundedAndRare ==
  [][/\ pc = "wifi_wait" => millis - reconnectStart <= 10000
     /\ (pc = "wifi_wait" /\ millis' # millis
           /\ millis - reconnectStart >= 10000) => pc' = "heartbeat"
     /\ (pc = "wifi" /\ pc' = "wifi_wait") =>
          /\ reconnectStart' = millis
          /\ reconnectStart = 0 \/ millis - reconnectStart > WIFI_CHECK_INTERVAL]_vars


----------------------------------------------------------------------------
\* A reset and an emotion command posted after it.

\* The entries of drained that hold posts of one kind.
DrainedOfKind(kind) ==
  { k \in DOMAIN drained : drained[k].id > 0 /\ posts[drained[k].id].kind = kind }

\* The last entry of drained that holds a post of one kind (0: none).
LastDrainedOfKind(kind) ==
  IF DrainedOfKind(kind) = {} THEN 0
  ELSE CHOOSE k \in DrainedOfKind(kind) : \A m \in DrainedOfKind(kind) : m <= k

\* C33: a reset never cancels an emotion command posted after the reset
\* request: when the acknowledged reset is executed while emotion mode is
\* active for an emotion command that was posted after that reset request,
\* emotion mode stays active with that label.
C33_LaterEmotionSurvivesReset ==
  [][(/\ ResetExecuted
      /\ LastDrainedOfKind("reset") > 0
      /\ LastDrainedOfKind("emotion") > 0
      /\ drained[LastDrainedOfKind("emotion")].id
           > drained[LastDrainedOfKind("reset")].id
      /\ emotion_mode_active) =>
       /\ emotion_mode_active'
       /\ current_emotion' = drained[LastDrainedOfKind("emotion")].payload]_vars


----------------------------------------------------------------------------
\* sketch_aug2a: a head task that was queued when emotion mode began.

\* C34: in sketch_aug2a a head command that was pending when emotion mode
\* became active is never applied after the mode has ended: the head step
\* of processSimpleTasks leaves the head target alone when the queued head
\* task was posted before the emotion command that was processed last.
C34_StaleHeadTaskNeverApplied ==
  [][(/\ pc = "aug_head" /\ pc' = "aug_servo"
      /\ has_head_task /\ ~emotion_mode_active
      /\ LastDrainedOfKind("emotion") > 0
      /\ pendingHeadId < drained[LastDrainedOfKind("emotion")].id) =>
       headState'.targetPos = headState.targetPos]_vars


----------------------------------------------------------------------------
\* The two mode flags.

\* C35: at every tick boundary (the main loop about to start an iteration)
\* head_tracking_enabled is the negation of emotion_mode_active.
C35_TrackingIffNotEmotionMode ==
  pc \in {"loop", "aug_loop"} => (head_tracking_enabled <=> ~emotion_mode_active)


----------------------------------------------------------------------------
\* The moving flag and the two positions of an axis.

\* C36: for every axis, in every state, an axis that is not marked as moving
\* is at its target: moving = FALSE implies currentPos = targetPos.
C36_IdleAxisAtTarget ==
  \A s \in {headState, leftArmState, rightArmState} :
    ~s.moving => s.currentPos = s.targetPos

\* The head has arrived at a target away from its rest position and is idle
\* there, while an arm is still on its way to its own target.
C36_Witness ==
  /\ ~headState.moving
  /\ headState.lastMoveTime > 0
  /\ headState.currentPos = headState.targetPos
  /\ headState.targetPos # 90
  /\ \E s \in {leftArmState, rightArmState} :
       s.moving /\ s.currentPos # s.targetPos

----------------------------------------------------------------------------
\* The angle of a count move.

\* C37: whenever the person-count branch issues a move request (the drain
\* of a count once the move interval has passed, which records the time of
\* the move), the angle it passes has been assigned for the count drained,
\* for every integer count that can be posted.
C37_CountAngleAssigned ==
  [][(/\ pc = "head_drain" /\ pc' = "servo"
      /\ ~emotion_mode_active /\ head_tracking_enabled
      /\ angle' = NO_VALUE /\ number' # NO_VALUE
      /\ millis - lastMoveTime > HEAD_MOVE_INTERVAL) =>
       newAngleAssigned(number')]_vars


----------------------------------------------------------------------------
\* POST /head_position with any frame width.

\* C38: for every POST /head_position whose body has an integer x and an
\* integer frame_width, a frame_width of 0 included, the handler completes:
\* the mapping to a head angle never divides by zero, so that the program
\* never stops with the exception of a division by zero.
C38_HeadPositionNeverFaults == pc # "fault"


----------------------------------------------------------------------------
\* sketch_jul22a: the servo angle.

\* C39: in sketch_jul22a the servo angle stays within [0, 180] in every
\* state; the sweep direction changes in exactly the steps in which the
\* angle arrives at 0 or at 180 (pointing into the range afterwards); and
\* in an iteration of loop() that finds the head data fresh and a person
\* stably detected, with the servo due, the angle goes 2 degrees towards 90
\* when it is more than 5 degrees from 90 and stays as it is otherwise.
C39_JulAngleSweepAndCentre ==
  /\ [](0 <= angle /\ angle <= 180)
  /\ [][/\ (sweepingRight' # sweepingRight) <=>
             (angle' # angle /\ angle' \in {0, 180})
        /\ (angle' # angle /\ angle' \in {0, 180}) =>
             (sweepingRight' <=> angle' = 0)
        /\ (/\ pc = "jul_servo" /\ pc' = "jul_loop"
            /\ head_data_fresh(millis) /\ stable_person_detected'
            /\ millis - lastMoveTime > 30) =>
             /\ abs(angle - 90) > 5 =>
                  /\ angle' = IF angle > 90 THEN angle - 2 ELSE angle + 2
                  /\ abs(angle' - 90) = abs(angle - 90) - 2
             /\ abs(angle - 90) <= 5 => angle' = angle]_vars

\* The sweep has turned at 180, a person was then stably detected with
\* fresh head data, and the servo has come to rest within 5 degrees of 90,
\* off 90: it was due in the last iteration and did not move.
C39_Witness ==
  /\ pc = "jul_loop"
  /\ ~sweepingRight
  /\ stable_person_detected
  /\ head_data_fresh(now)
  /\ abs(angle - 90) <= 5 /\ angle # 90
  /\ lastMoveTime > 0
  /\ now - lastMoveTime > JulElapse


----------------------------------------------------------------------------
\* The WiFi wait of setup().

\* C32: startup terminates also when WiFi never associates: the WiFi wait
\* of setup() is bounded by a hard timeout or an attempt budget, so that
\* setup() is never still waiting for the link after the longest wait a
\* setup() of the repository states, SETUP_WIFI_TIMEOUT ms.
C32_SetupWaitBounded ==
  pc = "jul_setup" => millis <= SETUP_WIFI_TIMEOUT

=============================================================================
